---- MODULE Spec2Model ----
(***************************************************************************)
(* A model of the data layer of the flashcard application                  *)
(* (src/app/firebase/firestore.js) and of the challenge screen that drives *)
(* it (src/unnamed/part_006).  The Firestore collections are the state;    *)
(* each exported function is one action, executed atomically (calls are    *)
(* issued one at a time).  Every call records its outcome in `result'.     *)
(***************************************************************************)
EXTENDS Integers, Sequences, FiniteSets, TLC

\* ------------------------------------------------------------------ bounds
MaxTopics == 2
MaxCards == 2
MaxShared == 2
MaxChallenges == 1
\* how many challenges are sent while the challenge screens are in use
MaxInbox == 2
MaxRecords == 2
MaxLen == 3
\* how far below zero a topic's cardCount is followed
MaxDrift == 1
\* how many friend requests are created
MaxRequests == 2
\* how many rewards a user's totalXP is followed for
MaxAwards == 3
\* how many times a profile component starts a load of its statistics or friends
MaxLoads == 2

\* the reward of a correct answer: addUserXP(100)
RewardXP == 100

\* ------------------------------------------------------------------ values
Users == {"u1", "u2", "u3"}
\* auth.currentUser is null
NoUser == "none"
\* the users that own topics and cards in the card specification
CardActors == {"u1", "u2", NoUser}

\* document ids: auto-generated, unique across collections
TopicIds == {10 + i : i \in 1..MaxTopics}
CardIds == {20 + i : i \in 1..MaxCards}
SharedIds == {30 + i : i \in 1..MaxShared}
ChallengeIds == {40 + i : i \in 1..MaxChallenges}
RecordIds == {50 + i : i \in 1..MaxRecords}
RequestIds == {60 + i : i \in 1..MaxRequests}
\* a null / undefined topicId, and a null id
NoTopic == 0
NoId == 0

\* strings are sequences of characters
Chars == {"a", "A", "b", " "}
\* every string of at most MaxLen characters
Strings == UNION {[1..n -> Chars] : n \in 0..MaxLen}
Words == {<<"a">>, <<"b">>}
Definitions == {<<"x">>, <<"y">>}
\* the content the card specification creates cards and patches from
CardDefinitions == {<<"x">>}
CardPatches == [vocabulary : Words, definition : CardDefinitions]
Patches == [vocabulary : Words, definition : Definitions]
NoArg == "-"

VARIABLES
  topics,               \* collection 'topics': id -> [userId, cardCount]
  cards,                \* collection 'cards': id -> [userId, topicId, vocabulary, definition]
  sharedCards,          \* collection 'sharedCards'
  myCards,              \* collections users/{uid}/myCards: <<uid, id>> -> [sharedCardId, topicId]
  challenges,           \* collection 'challenges'
  completedChallenges,  \* collections users/{uid}/completedChallenges
  users,                \* collection 'users': uid -> [exists, totalXP, completedChallenges]
  nextId,               \* how many ids each collection has handed out
  screen,               \* the challenge screen of each user
  result,               \* the outcome of the last call
  friendRequests,       \* collection 'friendRequests': id -> [fromUserId, toUserId, status]
  friends,              \* the 'friends' array of each users/{uid} document
  profile,              \* the profile screen of each user: what its listeners delivered
  inflight,             \* the call each user has in flight: where it is and what it read
  component             \* the profile component of each user: its refs and its listeners

\* friend requests, friends arrays and profile screens
social == <<friendRequests, friends, profile>>
store == <<topics, cards, sharedCards, myCards, challenges, completedChallenges, users, social>>
vars == <<topics, cards, sharedCards, myCards, challenges, completedChallenges, users,
          nextId, screen, result, friendRequests, friends, profile, inflight, component>>

\* a profile component after its first effect ran: mounted, its three refs
\* null, no listener subscribed, no load awaiting the store
NoListener == <<"none", 0>>
Mounted == [isMounted |-> TRUE, unsubscribeStats |-> NoListener,
            unsubscribeRequests |-> NoListener, unsubscribeSentRequests |-> NoListener,
            subscribed |-> {}, awaiting |-> {}, loads |-> 0]

\* a user with no call in flight
Idle == [pc |-> "idle"]

\* ------------------------------------------------------------------ helpers
\* the record of a call: what was called, by whom, with what, and what came back;
\* tick alternates so that a call that changes nothing else is still a step
Res(op, actor, id, arg, outcome, value) ==
  [op |-> op, actor |-> actor, id |-> id, arg |-> arg, outcome |-> outcome, value |-> value,
   tick |-> 1 - result.tick]

Remove(f, k) == [x \in DOMAIN f \ {k} |-> f[x]]
Put(f, k, v) == [x \in DOMAIN f \cup {k} |-> IF x = k THEN v ELSE f[x]]
RemoveAll(f, ks) == [x \in DOMAIN f \ ks |-> f[x]]

\* getCurrentUserId: throws when nobody is signed in
getCurrentUserId(actor) ==
  IF actor = NoUser THEN [ok |-> FALSE, uid |-> NoUser] ELSE [ok |-> TRUE, uid |-> actor]

\* getTopic: the topic must exist and belong to the caller
getTopic(userId, topicId) ==
  IF topicId \notin DOMAIN topics THEN "not-found"
  ELSE IF topics[topicId].userId # userId THEN "access-denied"
  ELSE "ok"

\* FieldValue.increment on cardCount inside a batch
IncrementCardCount(tps, topicId, delta) ==
  [tps EXCEPT ![topicId].cardCount = @ + delta]

\* ------------------------------------------------------------------ topics
CreateTopic(actor) ==
  /\ nextId.topics < MaxTopics
  /\ IF ~getCurrentUserId(actor).ok
     THEN /\ result' = Res("createTopic", actor, NoId, NoArg, "unauthenticated", NoId)
          /\ UNCHANGED <<store, inflight, component, nextId, screen>>
     ELSE LET id == 10 + nextId.topics + 1 IN
          /\ topics' = Put(topics, id, [userId |-> actor, cardCount |-> 0])
          /\ nextId' = [nextId EXCEPT !.topics = @ + 1]
          /\ result' = Res("createTopic", actor, id, NoArg, "ok", id)
          /\ UNCHANGED <<cards, sharedCards, myCards, inflight, component, social, challenges, completedChallenges,
                         users, screen>>

\* the cards deleteTopic's query returns: topicId and userId both match
CardsOfTopic(topicId, userId) ==
  {c \in DOMAIN cards : cards[c].topicId = topicId /\ cards[c].userId = userId}

\* deleteTopic; cardsQueryOk tells whether the query for the topic's cards answers:
\* when it throws, the function carries on with no card to delete
deleteTopic(actor, topicId, cardsQueryOk) ==
  LET auth == getCurrentUserId(actor)
      owned == IF auth.ok THEN getTopic(actor, topicId) ELSE "unauthenticated"
      found == IF cardsQueryOk THEN CardsOfTopic(topicId, actor) ELSE {}
  IN
  IF owned # "ok"
  THEN /\ result' = Res("deleteTopic", actor, topicId, NoArg, owned, NoId)
       /\ UNCHANGED <<store, inflight, component, nextId, screen>>
  ELSE /\ cards' = [c \in DOMAIN cards \ found |-> cards[c]]
       /\ topics' = Remove(topics, topicId)
       /\ result' = Res("deleteTopic", actor, topicId, NoArg, "ok", NoId)
       /\ UNCHANGED <<sharedCards, myCards, inflight, component, social, challenges, completedChallenges, users,
                      nextId, screen>>

\* deleteTopic when the query for the topic's cards answers
DeleteTopic(actor, topicId) == deleteTopic(actor, topicId, TRUE)

\* ------------------------------------------------------------------ cards
AddCardWithTopic(actor, vocabulary, definition, topicId) ==
  /\ nextId.cards < MaxCards
  /\ LET auth == getCurrentUserId(actor)
         owned == IF ~auth.ok THEN "unauthenticated"
                  ELSE IF topicId # NoTopic THEN getTopic(actor, topicId)
                  ELSE "ok"
         id == 20 + nextId.cards + 1
     IN
     IF owned # "ok"
     THEN /\ result' = Res("addCardWithTopic", actor, NoId, NoArg, owned, NoId)
          /\ UNCHANGED <<store, inflight, component, nextId, screen>>
     ELSE /\ cards' = Put(cards, id, [userId |-> actor, topicId |-> topicId,
                                      vocabulary |-> vocabulary, definition |-> definition])
          /\ topics' = IF topicId # NoTopic THEN IncrementCardCount(topics, topicId, 1)
                       ELSE topics
          /\ nextId' = [nextId EXCEPT !.cards = @ + 1]
          /\ result' = Res("addCardWithTopic", actor, id, NoArg, "ok", id)
          /\ UNCHANGED <<sharedCards, myCards, inflight, component, social, challenges, completedChallenges, users, screen>>

\* removeCardFromCollection: the state after the call, and whether it threw.
\* The batch updates the topic's count whenever the card data names an existing
\* topic, whether or not the card itself was put in the batch for deletion.
removeCardFromCollection(userId, cardId) ==
  LET inMyCards == <<userId, cardId>> \in DOMAIN myCards
      inCards == cardId \in DOMAIN cards
      hasData == inMyCards \/ inCards
      \* cardData: the myCards entry if there is one, else the main card
      dataTopic == IF inMyCards THEN myCards[<<userId, cardId>>].topicId
                   ELSE IF inCards THEN cards[cardId].topicId ELSE NoTopic
      dataShared == IF inMyCards THEN myCards[<<userId, cardId>>].sharedCardId ELSE NoId
      myCards1 == IF inMyCards THEN Remove(myCards, <<userId, cardId>>) ELSE myCards
      cards1 == IF ~inMyCards /\ inCards /\ cards[cardId].userId = userId
                THEN Remove(cards, cardId) ELSE cards
      shared1 == IF dataShared # NoId /\ dataShared \in DOMAIN sharedCards
                 THEN [sharedCards EXCEPT ![dataShared].userCount = @ - 1]
                 ELSE sharedCards
      topics1 == IF dataTopic # NoTopic /\ dataTopic \in DOMAIN topics
                 THEN IncrementCardCount(topics, dataTopic, -1)
                 ELSE topics
  IN
  IF ~hasData
  THEN [threw |-> FALSE, cards |-> cards, topics |-> topics,
        sharedCards |-> sharedCards, myCards |-> myCards]
  ELSE [threw |-> FALSE, cards |-> cards1, topics |-> topics1,
        sharedCards |-> shared1, myCards |-> myCards1]

\* deleteCard: "try new system first", and the legacy delete only when that threw
DeleteCard(actor, cardId) ==
  IF ~getCurrentUserId(actor).ok
  THEN /\ result' = Res("deleteCard", actor, cardId, NoArg, "unauthenticated", NoId)
       /\ UNCHANGED <<store, inflight, component, nextId, screen>>
  ELSE LET r == removeCardFromCollection(actor, cardId) IN
       IF ~r.threw
       THEN /\ \A t \in DOMAIN r.topics : r.topics[t].cardCount >= 0 - MaxDrift
            /\ cards' = r.cards
            /\ topics' = r.topics
            /\ sharedCards' = r.sharedCards
            /\ myCards' = r.myCards
            /\ result' = Res("deleteCard", actor, cardId, NoArg, "ok", NoId)
            /\ UNCHANGED <<challenges, completedChallenges, users, nextId, screen, social, inflight, component>>
       ELSE \* legacy delete
            IF cardId \notin DOMAIN cards
            THEN /\ result' = Res("deleteCard", actor, cardId, NoArg, "not-found", NoId)
                 /\ UNCHANGED <<store, inflight, component, nextId, screen>>
            ELSE IF cards[cardId].userId # actor
            THEN /\ result' = Res("deleteCard", actor, cardId, NoArg, "access-denied", NoId)
                 /\ UNCHANGED <<store, inflight, component, nextId, screen>>
            ELSE IF cards[cardId].topicId # NoTopic /\ cards[cardId].topicId \notin DOMAIN topics
            THEN /\ result' = Res("deleteCard", actor, cardId, NoArg, "store-error", NoId)
                 /\ UNCHANGED <<store, inflight, component, nextId, screen>>
            ELSE /\ cards' = Remove(cards, cardId)
                 /\ topics' = IF cards[cardId].topicId # NoTopic
                              THEN IncrementCardCount(topics, cards[cardId].topicId, -1)
                              ELSE topics
                 /\ result' = Res("deleteCard", actor, cardId, NoArg, "ok", NoId)
                 /\ UNCHANGED <<sharedCards, myCards, inflight, component, social, challenges, completedChallenges,
                                users, nextId, screen>>

\* moveCardToTopic that writes the card before the counts, outside a batch
moveCardToTopicCardFirst(actor, cardId, newTopicId, commits) ==
  LET auth == getCurrentUserId(actor)
      check == IF ~auth.ok THEN "unauthenticated"
               ELSE IF cardId \notin DOMAIN cards THEN "not-found"
               ELSE IF cards[cardId].userId # actor THEN "access-denied"
               ELSE IF newTopicId # NoTopic THEN getTopic(actor, newTopicId)
               ELSE "ok"
  IN
  IF check # "ok"
  THEN /\ result' = Res("moveCardToTopic", actor, cardId, newTopicId, check, NoId)
       /\ UNCHANGED <<store, inflight, component, nextId, screen>>
  ELSE LET oldTopicId == cards[cardId].topicId IN
       IF oldTopicId = newTopicId
       THEN /\ result' = Res("moveCardToTopic", actor, cardId, newTopicId, "ok", NoId)
            /\ UNCHANGED <<store, inflight, component, nextId, screen>>
       ELSE IF ~commits
       THEN /\ cards' = [cards EXCEPT ![cardId].topicId = newTopicId]
            /\ result' = Res("moveCardToTopic", actor, cardId, newTopicId, "store-error", NoId)
            /\ UNCHANGED <<topics, sharedCards, myCards, inflight, component, social, challenges,
                           completedChallenges, users, nextId, screen>>
       ELSE IF oldTopicId # NoTopic /\ oldTopicId \notin DOMAIN topics
       THEN \* batch.update of a missing document fails the whole batch
            /\ result' = Res("moveCardToTopic", actor, cardId, newTopicId, "store-error", NoId)
            /\ UNCHANGED <<store, inflight, component, nextId, screen>>
       ELSE LET t1 == IF oldTopicId # NoTopic
                      THEN IncrementCardCount(topics, oldTopicId, -1) ELSE topics
                t2 == IF newTopicId # NoTopic
                      THEN IncrementCardCount(t1, newTopicId, 1) ELSE t1
            IN
            /\ cards' = [cards EXCEPT ![cardId].topicId = newTopicId]
            /\ topics' = t2
            /\ result' = Res("moveCardToTopic", actor, cardId, newTopicId, "ok", NoId)
            /\ UNCHANGED <<sharedCards, myCards, inflight, component, social, challenges, completedChallenges, users,
                           nextId, screen>>

\* moveCardToTopic: one batch updates the card and both topic counts;
\* commits tells whether batch.commit() goes through
moveCardToTopic(actor, cardId, newTopicId, commits) ==
  LET auth == getCurrentUserId(actor)
      check == IF ~auth.ok THEN "unauthenticated"
               ELSE IF cardId \notin DOMAIN cards THEN "not-found"
               ELSE IF cards[cardId].userId # actor THEN "access-denied"
               ELSE IF newTopicId # NoTopic THEN getTopic(actor, newTopicId)
               ELSE "ok"
  IN
  IF check # "ok"
  THEN /\ result' = Res("moveCardToTopic", actor, cardId, newTopicId, check, NoId)
       /\ UNCHANGED <<store, inflight, component, nextId, screen>>
  ELSE LET oldTopicId == cards[cardId].topicId IN
       IF oldTopicId = newTopicId
       THEN /\ result' = Res("moveCardToTopic", actor, cardId, newTopicId, "ok", NoId)
            /\ UNCHANGED <<store, inflight, component, nextId, screen>>
       ELSE IF ~commits \/ (oldTopicId # NoTopic /\ oldTopicId \notin DOMAIN topics)
       THEN \* a refused commit, or batch.update of a missing document, fails the whole batch
            /\ result' = Res("moveCardToTopic", actor, cardId, newTopicId, "store-error", NoId)
            /\ UNCHANGED <<store, inflight, component, nextId, screen>>
       ELSE LET t1 == IF oldTopicId # NoTopic
                      THEN IncrementCardCount(topics, oldTopicId, -1) ELSE topics
                t2 == IF newTopicId # NoTopic
                      THEN IncrementCardCount(t1, newTopicId, 1) ELSE t1
            IN
            /\ cards' = [cards EXCEPT ![cardId].topicId = newTopicId]
            /\ topics' = t2
            /\ result' = Res("moveCardToTopic", actor, cardId, newTopicId, "ok", NoId)
            /\ UNCHANGED <<sharedCards, myCards, inflight, component, social, challenges, completedChallenges, users,
                           nextId, screen>>

\* moveCardToTopic when the commit goes through
MoveCardToTopic(actor, cardId, newTopicId) == moveCardToTopic(actor, cardId, newTopicId, TRUE)

\* ------------------------------------------------------------------ shared cards
\* the documents of 'sharedCards' whose field sharedCardId equals the id
SharedCardsByField(id) ==
  {s \in DOMAIN sharedCards :
     "sharedCardId" \in DOMAIN sharedCards[s] /\ sharedCards[s].sharedCardId = id}

ApplyPatch(doc, patch) ==
  [doc EXCEPT !.vocabulary = patch.vocabulary, !.definition = patch.definition]

\* updateSharedCard for a signed-in user: the outcome and the collection after it.
\* A miss on both lookups returns normally ("not-shared"): it does not throw.
updateSharedCard(userId, sharedCardId, patch) ==
  IF sharedCardId \notin DOMAIN sharedCards
  THEN IF SharedCardsByField(sharedCardId) = {}
       THEN [threw |-> FALSE, outcome |-> "not-shared", sharedCards |-> sharedCards]
       ELSE LET found == CHOOSE s \in SharedCardsByField(sharedCardId) :
                           \A o \in SharedCardsByField(sharedCardId) : s <= o
            IN [threw |-> FALSE, outcome |-> "ok",
                sharedCards |-> [sharedCards EXCEPT ![found] = ApplyPatch(@, patch)]]
  ELSE IF sharedCards[sharedCardId].recipientId # userId
  THEN [threw |-> TRUE, outcome |-> "access-denied", sharedCards |-> sharedCards]
  ELSE [threw |-> FALSE, outcome |-> "ok",
        sharedCards |-> [sharedCards EXCEPT ![sharedCardId] = ApplyPatch(@, patch)]]

UpdateSharedCard(actor, sharedCardId, patch) ==
  IF ~getCurrentUserId(actor).ok
  THEN /\ result' = Res("updateSharedCard", actor, sharedCardId, patch, "unauthenticated", NoId)
       /\ UNCHANGED <<store, inflight, component, nextId, screen>>
  ELSE LET r == updateSharedCard(actor, sharedCardId, patch) IN
       /\ sharedCards' = r.sharedCards
       /\ result' = Res("updateSharedCard", actor, sharedCardId, patch,
                        IF r.threw THEN r.outcome ELSE "ok", NoId)
       /\ UNCHANGED <<topics, cards, myCards, inflight, component, social, challenges, completedChallenges, users,
                      nextId, screen>>

\* updateCard: returns as soon as updateSharedCard returns without throwing;
\* the legacy update runs only when updateSharedCard threw
UpdateCard(actor, cardId, patch) ==
  IF ~getCurrentUserId(actor).ok
  THEN /\ result' = Res("updateCard", actor, cardId, patch, "unauthenticated", NoId)
       /\ UNCHANGED <<store, inflight, component, nextId, screen>>
  ELSE LET r == updateSharedCard(actor, cardId, patch) IN
       IF ~r.threw
       THEN /\ sharedCards' = r.sharedCards
            /\ result' = Res("updateCard", actor, cardId, patch, "ok", NoId)
            /\ UNCHANGED <<topics, cards, myCards, inflight, component, social, challenges, completedChallenges, users,
                           nextId, screen>>
       ELSE \* legacy update
            IF cardId \notin DOMAIN cards
            THEN /\ result' = Res("updateCard", actor, cardId, patch, "not-found", NoId)
                 /\ UNCHANGED <<store, inflight, component, nextId, screen>>
            ELSE IF cards[cardId].userId # actor
            THEN /\ result' = Res("updateCard", actor, cardId, patch, "access-denied", NoId)
                 /\ UNCHANGED <<store, inflight, component, nextId, screen>>
            ELSE /\ cards' = [cards EXCEPT ![cardId] = ApplyPatch(@, patch)]
                 /\ result' = Res("updateCard", actor, cardId, patch, "ok", NoId)
                 /\ UNCHANGED <<topics, sharedCards, myCards, inflight, component, social, challenges,
                                completedChallenges, users, nextId, screen>>

\* a query that forgets the recipient: any card with the vocabulary and definition
ExistingSharedCardsOfAnyRecipient(vocabulary, definition, recipientId) ==
  {s \in DOMAIN sharedCards : /\ sharedCards[s].vocabulary = vocabulary
                              /\ sharedCards[s].definition = definition}

\* the query of addSharedCardFromChallenge: same vocabulary, definition, recipient
ExistingSharedCards(vocabulary, definition, recipientId) ==
  {s \in DOMAIN sharedCards : /\ sharedCards[s].vocabulary = vocabulary
                              /\ sharedCards[s].definition = definition
                              /\ sharedCards[s].recipientId = recipientId}

\* snapshot.docs[0]: a query without orderBy returns documents in id order
FirstDoc(ids) == CHOOSE s \in ids : \A o \in ids : s <= o

\* getSharedCardsForRecipient: the shared cards whose recipientId is the caller
getSharedCardsForRecipient(userId) ==
  {s \in DOMAIN sharedCards : sharedCards[s].recipientId = userId}

\* addSharedCardFromChallenge without its query: it creates a card every time
addSharedCardAlwaysCreating(vocabulary, definition, senderId, recipientId) ==
  LET id == 30 + nextId.sharedCards + 1 IN
  [id |-> id, created |-> TRUE,
   sharedCards |-> Put(sharedCards, id,
                       [vocabulary |-> vocabulary, definition |-> definition,
                        senderId |-> senderId, recipientId |-> recipientId,
                        userCount |-> 0])]

\* addSharedCardFromChallenge reads no signed-in user: recipientId and senderId
\* are whatever the caller passes in challengeData.  The id it returns, the
\* collection it leaves, and whether it created a document.
addSharedCardFromChallenge(vocabulary, definition, senderId, recipientId) ==
  LET existing == ExistingSharedCards(vocabulary, definition, recipientId)
      id == 30 + nextId.sharedCards + 1
  IN
  IF existing # {}
  THEN [id |-> FirstDoc(existing), sharedCards |-> sharedCards, created |-> FALSE]
  ELSE [id |-> id, created |-> TRUE,
        sharedCards |-> Put(sharedCards, id,
                            [vocabulary |-> vocabulary, definition |-> definition,
                             senderId |-> senderId, recipientId |-> recipientId,
                             userCount |-> 0])]

\* a direct call of addSharedCardFromChallenge
AddSharedCardFromChallenge(actor, vocabulary, definition, senderId, recipientId) ==
  LET r == addSharedCardFromChallenge(vocabulary, definition, senderId, recipientId)
      arg == [vocabulary |-> vocabulary, definition |-> definition,
              senderId |-> senderId, recipientId |-> recipientId]
  IN
  /\ r.created => nextId.sharedCards < MaxShared
  /\ sharedCards' = r.sharedCards
  /\ nextId' = [nextId EXCEPT !.sharedCards = IF r.created THEN @ + 1 ELSE @]
  /\ result' = Res("addSharedCardFromChallenge", actor, r.id, arg, "ok", r.id)
  /\ UNCHANGED <<topics, cards, myCards, inflight, component, social, challenges, completedChallenges, users, screen>>

\* deleteSharedCard: every error, the missing sign-in included, is caught and
\* not rethrown, so the call always returns normally
DeleteSharedCard(actor, sharedCardId) ==
  LET may == /\ getCurrentUserId(actor).ok
             /\ sharedCardId \in DOMAIN sharedCards
             /\ sharedCards[sharedCardId].recipientId = actor
  IN
  /\ sharedCards' = IF may THEN Remove(sharedCards, sharedCardId) ELSE sharedCards
  /\ result' = Res("deleteSharedCard", actor, sharedCardId, NoArg, "ok", NoId)
  /\ UNCHANGED <<topics, cards, myCards, inflight, component, social, challenges, completedChallenges, users, nextId, screen>>

\* ------------------------------------------------------------------ strings
\* String.prototype.toLowerCase, character by character
LowerChar(c) == IF c = "A" THEN "a" ELSE IF c = "B" THEN "b" ELSE c
ToLowerCase(s) == [i \in 1..Len(s) |-> LowerChar(s[i])]

\* String.prototype.trim: whitespace is dropped from both ends, never from inside
RECURSIVE TrimStart(_)
TrimStart(s) == IF s # <<>> /\ Head(s) = " " THEN TrimStart(Tail(s)) ELSE s
RECURSIVE TrimEnd(_)
TrimEnd(s) == IF s # <<>> /\ s[Len(s)] = " " THEN TrimEnd(SubSeq(s, 1, Len(s) - 1)) ELSE s
Trim(s) == TrimEnd(TrimStart(s))

\* ------------------------------------------------------------------ challenges
NoScore == 0 - 1
NoAnswer == <<"undefined">>
NoDate == "null"
SomeDate == "date"

\* sendChallenge: one pending entry per recipient id, in the order given
PendingRecipients(recipientIds) ==
  [i \in 1..Len(recipientIds) |->
     [userId |-> recipientIds[i], status |-> "pending", score |-> NoScore,
      userAnswer |-> NoAnswer, completedAt |-> NoDate]]

SendChallenge(actor, vocabulary, definition, recipientIds) ==
  /\ IF ~getCurrentUserId(actor).ok
     THEN /\ result' = Res("sendChallenge", actor, NoId, recipientIds, "unauthenticated", NoId)
          /\ UNCHANGED <<store, inflight, component, nextId, screen>>
     ELSE LET id == 40 + nextId.challenges + 1 IN
          /\ challenges' = Put(challenges, id,
                               [senderId |-> actor,
                                card |-> [vocabulary |-> vocabulary, definition |-> definition],
                                recipients |-> PendingRecipients(recipientIds)])
          /\ nextId' = [nextId EXCEPT !.challenges = @ + 1]
          /\ result' = Res("sendChallenge", actor, id, recipientIds, "ok", id)
          /\ UNCHANGED <<topics, cards, sharedCards, myCards, inflight, component, social, completedChallenges, users, screen>>

\* a grading that lower-cases but does not trim
IsCorrectUntrimmed(userAnswer, correctAnswer) ==
  ToLowerCase(userAnswer) = ToLowerCase(correctAnswer)

\* the grading of completeChallenge
IsCorrect(userAnswer, correctAnswer) ==
  Trim(ToLowerCase(userAnswer)) = Trim(ToLowerCase(correctAnswer))
Score(isCorrect) == IF isCorrect THEN 100 ELSE 0

\* a write-back that completes the entry of every recipient
CompletedRecipientsOfAll(recipients, userId, score, userAnswer) ==
  [i \in 1..Len(recipients) |->
     [recipients[i] EXCEPT !.status = "completed", !.score = score,
                           !.userAnswer = userAnswer, !.completedAt = SomeDate]]

\* the recipients array completeChallenge writes back: the caller's entries are
\* replaced whatever their status, the others are copied
CompletedRecipients(recipients, userId, score, userAnswer) ==
  [i \in 1..Len(recipients) |->
     IF recipients[i].userId = userId
     THEN [recipients[i] EXCEPT !.status = "completed", !.score = score,
                                !.userAnswer = userAnswer, !.completedAt = SomeDate]
     ELSE recipients[i]]

\* the recipients array rejectChallenge writes back
RejectedRecipients(recipients, userId) ==
  [i \in 1..Len(recipients) |->
     IF recipients[i].userId = userId
     THEN [recipients[i] EXCEPT !.status = "rejected", !.completedAt = SomeDate]
     ELSE recipients[i]]

\* a completion that also copies the challenge's card to the caller's shared cards
completeChallengeCopyingCard(actor, challengeId, userAnswer) ==
  /\ getCurrentUserId(actor).ok
  /\ challengeId \in DOMAIN challenges
  /\ nextId.records < MaxRecords
  /\ nextId.sharedCards < MaxShared
  /\ LET challengeData == challenges[challengeId]
         isCorrect == IsCorrect(userAnswer, challengeData.card.vocabulary)
     IN
     /\ challenges' = [challenges EXCEPT ![challengeId].recipients =
                         CompletedRecipients(@, actor, Score(isCorrect), userAnswer)]
     /\ completedChallenges' =
          Put(completedChallenges, 50 + nextId.records + 1,
              [userId |-> actor, challengeId |-> challengeId,
               senderId |-> challengeData.senderId, card |-> challengeData.card,
               userAnswer |-> userAnswer, userScore |-> Score(isCorrect),
               isCorrect |-> isCorrect])
     /\ sharedCards' = Put(sharedCards, 30 + nextId.sharedCards + 1,
                           [vocabulary |-> challengeData.card.vocabulary,
                            definition |-> challengeData.card.definition,
                            senderId |-> challengeData.senderId, recipientId |-> actor,
                            userCount |-> 0])
     /\ nextId' = [nextId EXCEPT !.records = @ + 1, !.sharedCards = @ + 1]
     /\ result' = Res("completeChallenge", actor, challengeId, userAnswer, "ok",
                      [isCorrect |-> isCorrect, score |-> Score(isCorrect),
                       correctAnswer |-> challengeData.card.vocabulary])
     /\ UNCHANGED <<topics, cards, myCards, inflight, component, social, users>>

\* completeChallenge, as any caller sees it
completeChallenge(actor, challengeId, userAnswer) ==
  IF ~getCurrentUserId(actor).ok
  THEN /\ result' = Res("completeChallenge", actor, challengeId, userAnswer,
                        "unauthenticated", NoId)
       /\ UNCHANGED <<store, inflight, component, nextId>>
  ELSE IF challengeId \notin DOMAIN challenges
  THEN /\ result' = Res("completeChallenge", actor, challengeId, userAnswer, "not-found", NoId)
       /\ UNCHANGED <<store, inflight, component, nextId>>
  ELSE LET challengeData == challenges[challengeId]
           correctAnswer == challengeData.card.vocabulary
           isCorrect == IsCorrect(userAnswer, correctAnswer)
           score == Score(isCorrect)
           recordId == 50 + nextId.records + 1
       IN
       /\ nextId.records < MaxRecords
       /\ challenges' = [challenges EXCEPT ![challengeId].recipients =
                           CompletedRecipients(@, actor, score, userAnswer)]
       /\ completedChallenges' =
            Put(completedChallenges, recordId,
                [userId |-> actor, challengeId |-> challengeId,
                 senderId |-> challengeData.senderId, card |-> challengeData.card,
                 userAnswer |-> userAnswer, userScore |-> score, isCorrect |-> isCorrect])
       /\ users' = IF users[actor].exists
                   THEN [users EXCEPT ![actor].completedChallenges = @ \cup {challengeId}]
                   ELSE users
       /\ nextId' = [nextId EXCEPT !.records = @ + 1]
       /\ result' = Res("completeChallenge", actor, challengeId, userAnswer, "ok",
                        [isCorrect |-> isCorrect, score |-> score,
                         correctAnswer |-> correctAnswer])
       /\ UNCHANGED <<topics, cards, sharedCards, myCards, inflight, component, social>>

\* a direct call of completeChallenge
CompleteChallenge(actor, challengeId, userAnswer) ==
  completeChallenge(actor, challengeId, userAnswer) /\ UNCHANGED screen

\* rejectChallenge, as any caller sees it
rejectChallenge(actor, challengeId) ==
  IF ~getCurrentUserId(actor).ok
  THEN /\ result' = Res("rejectChallenge", actor, challengeId, NoArg, "unauthenticated", NoId)
       /\ UNCHANGED <<store, inflight, component, nextId>>
  ELSE IF challengeId \notin DOMAIN challenges
  THEN /\ result' = Res("rejectChallenge", actor, challengeId, NoArg, "not-found", NoId)
       /\ UNCHANGED <<store, inflight, component, nextId>>
  ELSE /\ challenges' = [challenges EXCEPT ![challengeId].recipients =
                           RejectedRecipients(@, actor)]
       /\ result' = Res("rejectChallenge", actor, challengeId, NoArg, "ok", NoId)
       /\ UNCHANGED <<topics, cards, sharedCards, myCards, inflight, component, social, completedChallenges, users,
                      nextId>>

\* a direct call of rejectChallenge
RejectChallenge(actor, challengeId) ==
  rejectChallenge(actor, challengeId) /\ UNCHANGED screen

\* ------------------------------------------------------------------ experience
\* addUserXP that writes the amount over the total of an existing document
addUserXPOverwriting(userId, xpAmount) ==
  [users EXCEPT ![userId] = [exists |-> TRUE, totalXP |-> xpAmount,
                             completedChallenges |-> @.completedChallenges]]

\* addUserXP: increments totalXP, creating the user document when it is missing
addUserXP(userId, xpAmount) ==
  IF users[userId].exists
  THEN [users EXCEPT ![userId].totalXP = @ + xpAmount]
  ELSE [users EXCEPT ![userId] = [exists |-> TRUE, totalXP |-> xpAmount,
                                  completedChallenges |-> {}]]

\* the amounts addUserXP is called with
XPAmounts == {0, 50, RewardXP}

\* a direct call of addUserXP
AddUserXP(actor, xpAmount) ==
  /\ IF ~getCurrentUserId(actor).ok
     THEN /\ result' = Res("addUserXP", actor, NoId, NoArg, "unauthenticated", xpAmount)
          /\ UNCHANGED users
     ELSE /\ users[actor].totalXP + xpAmount <= MaxAwards * RewardXP
          /\ users' = addUserXP(actor, xpAmount)
          /\ result' = Res("addUserXP", actor, NoId, NoArg, "ok", xpAmount)
  /\ UNCHANGED <<topics, cards, sharedCards, myCards, inflight, component, challenges, completedChallenges, social,
                 nextId, screen>>

\* getUserXP: totalXP || 0 of the user's document, 0 without a document or a user
getUserXP(userId) ==
  IF ~getCurrentUserId(userId).ok THEN 0
  ELSE IF users[userId].exists THEN users[userId].totalXP
  ELSE 0

\* a direct call of getUserXP
GetUserXP(actor) ==
  /\ result' = Res("getUserXP", actor, NoId, NoArg, "ok", getUserXP(actor))
  /\ UNCHANGED <<store, inflight, component, nextId, screen>>

\* ensureUserDocument: creates the user's document, without a totalXP field
EnsureUserDocument(u) ==
  /\ ~users[u].exists
  /\ users' = [users EXCEPT ![u].exists = TRUE]
  /\ UNCHANGED <<topics, cards, sharedCards, myCards, inflight, component, challenges, completedChallenges, social,
                 nextId, screen, result>>

\* ------------------------------------------------------------------ challenge screen
\* the state of a profile screen before anything is loaded: its useState defaults
NoProfile == [friends |-> {}, friendRequests |-> {}, sentRequests |-> {}, searchResults |-> {}]

\* the state of a challenge screen that is not mounted: its useState defaults
NoScreen == [challenges |-> <<>>, currentChallengeIndex |-> 0, showResult |-> FALSE,
             isCorrect |-> FALSE, showRewardModal |-> FALSE]

\* a set of document ids as the sequence a collection read returns
RECURSIVE InIdOrder(_)
InIdOrder(ids) ==
  IF ids = {} THEN <<>> ELSE <<FirstDoc(ids)>> \o InIdOrder(ids \ {FirstDoc(ids)})

\* getPendingChallenges: the challenges in which the user has a pending entry
getPendingChallenges(userId) ==
  InIdOrder({c \in DOMAIN challenges :
               \E i \in 1..Len(challenges[c].recipients) :
                 /\ challenges[c].recipients[i].userId = userId
                 /\ challenges[c].recipients[i].status = "pending"})

\* the screen shows a challenge: it is past the empty state
Rendered(u) == screen[u].challenges # <<>>
\* challenges[currentChallengeIndex]
CurrentChallenge(u) == screen[u].challenges[screen[u].currentChallengeIndex + 1]

\* the screen is mounted and loadChallenges has run
LoadChallenges(u) ==
  /\ screen' = [screen EXCEPT ![u] = [NoScreen EXCEPT !.challenges = getPendingChallenges(u)]]
  /\ UNCHANGED <<store, inflight, component, nextId, result>>

\* handleSubmitAnswer: graded on the screen; completeChallenge is called only for
\* a correct answer, and the reward modal opens only if that call returned
HandleSubmitAnswer(u, userAnswer) ==
  /\ Rendered(u)
  /\ ~screen[u].showResult
  /\ ~screen[u].showRewardModal
  /\ Trim(userAnswer) # <<>>
  /\ LET id == CurrentChallenge(u)
         isAnswerCorrect == IsCorrect(userAnswer, challenges[id].card.vocabulary)
     IN
     IF isAnswerCorrect
     THEN /\ completeChallenge(u, id, Trim(userAnswer))
          /\ screen' = [screen EXCEPT ![u].showResult = TRUE, ![u].isCorrect = TRUE,
                                      ![u].showRewardModal = (result'.outcome = "ok")]
     ELSE /\ screen' = [screen EXCEPT ![u].showResult = TRUE, ![u].isCorrect = FALSE]
          /\ UNCHANGED <<store, inflight, component, nextId, result>>

\* handleAddCardAndXP: addCardToCollection files the card under the challenge's
\* FIRST recipient, then addUserXP rewards the signed-in user
HandleAddCardAndXP(u) ==
  /\ Rendered(u)
  /\ screen[u].showRewardModal
  /\ LET currentChallenge == challenges[CurrentChallenge(u)]
         recipientId == currentChallenge.recipients[1].userId
         r == addSharedCardFromChallenge(currentChallenge.card.vocabulary,
                                         currentChallenge.card.definition,
                                         currentChallenge.senderId, recipientId)
     IN
     /\ r.created => nextId.sharedCards < MaxShared
     /\ sharedCards' = r.sharedCards
     /\ nextId' = [nextId EXCEPT !.sharedCards = IF r.created THEN @ + 1 ELSE @]
     /\ users' = addUserXP(u, RewardXP)
     /\ screen' = [screen EXCEPT ![u].showRewardModal = FALSE]
     /\ result' = Res("addSharedCardFromChallenge", u, r.id,
                      [vocabulary |-> currentChallenge.card.vocabulary,
                       definition |-> currentChallenge.card.definition,
                       senderId |-> currentChallenge.senderId, recipientId |-> recipientId],
                      "ok", r.id)
     /\ UNCHANGED <<topics, cards, myCards, inflight, component, social, challenges, completedChallenges>>

\* handleXPOnly
HandleXPOnly(u) ==
  /\ Rendered(u)
  /\ screen[u].showRewardModal
  /\ users' = addUserXP(u, RewardXP)
  /\ screen' = [screen EXCEPT ![u].showRewardModal = FALSE]
  /\ result' = Res("addUserXP", u, NoId, NoArg, "ok", NoId)
  /\ UNCHANGED <<topics, cards, sharedCards, myCards, inflight, component, social, challenges, completedChallenges, nextId>>

\* the modal's onRequestClose
OnRequestClose(u) ==
  /\ screen[u].showRewardModal
  /\ screen' = [screen EXCEPT ![u].showRewardModal = FALSE]
  /\ UNCHANGED <<store, inflight, component, nextId, result>>

\* challenges.filter((_, index) => index !== currentChallengeIndex)
WithoutCurrent(u) ==
  SubSeq(screen[u].challenges, 1, screen[u].currentChallengeIndex)
    \o SubSeq(screen[u].challenges, screen[u].currentChallengeIndex + 2,
              Len(screen[u].challenges))

\* handleRejectChallenge, confirmed: the header button is there whatever the
\* current challenge's state on the screen; after the last challenge the screen
\* is left
HandleRejectChallenge(u) ==
  /\ Rendered(u)
  /\ ~screen[u].showRewardModal
  /\ rejectChallenge(u, CurrentChallenge(u))
  /\ screen' = IF result'.outcome # "ok" THEN screen
               ELSE IF WithoutCurrent(u) = <<>> THEN [screen EXCEPT ![u] = NoScreen]
               ELSE [screen EXCEPT
                       ![u].challenges = WithoutCurrent(u),
                       ![u].currentChallengeIndex =
                          IF @ >= Len(WithoutCurrent(u)) THEN 0 ELSE @]

\* handleTryAgain: the button of the wrong-answer side
HandleTryAgain(u) ==
  /\ Rendered(u)
  /\ screen[u].showResult
  /\ ~screen[u].isCorrect
  /\ screen' = [screen EXCEPT ![u].showResult = FALSE]
  /\ UNCHANGED <<store, inflight, component, nextId, result>>

\* handleNextChallenge: the arrow of the question side, enabled before the last
\* challenge, and the Next / Skip / Finish button of the result side; after the
\* last challenge the screen is left
HandleNextChallenge(u) ==
  /\ Rendered(u)
  /\ ~screen[u].showRewardModal
  /\ \/ screen[u].showResult
     \/ screen[u].currentChallengeIndex < Len(screen[u].challenges) - 1
  /\ screen' = IF screen[u].currentChallengeIndex < Len(screen[u].challenges) - 1
               THEN [screen EXCEPT ![u].currentChallengeIndex = @ + 1,
                                   ![u].showResult = FALSE, ![u].isCorrect = FALSE,
                                   ![u].showRewardModal = FALSE]
               ELSE [screen EXCEPT ![u] = NoScreen]
  /\ UNCHANGED <<store, inflight, component, nextId, result>>

\* handlePreviousChallenge: the arrow of the question side
HandlePreviousChallenge(u) ==
  /\ Rendered(u)
  /\ ~screen[u].showResult
  /\ screen[u].currentChallengeIndex > 0
  /\ screen' = [screen EXCEPT ![u].currentChallengeIndex = @ - 1,
                              ![u].showResult = FALSE, ![u].isCorrect = FALSE]
  /\ UNCHANGED <<store, inflight, component, nextId, result>>

\* ------------------------------------------------------------------ reading cards
\* getUserCards: the shared cards the user's myCards entries refer to, those of
\* one topic when a topicId is given; entries whose shared card is gone are dropped
getUserCards(userId, topicId) ==
  {myCards[k].sharedCardId :
     k \in {e \in DOMAIN myCards : /\ e[1] = userId
                                   /\ topicId # NoTopic => myCards[e].topicId = topicId
                                   /\ myCards[e].sharedCardId \in DOMAIN sharedCards}}

\* getCards: what getUserCards returns unless that is empty, and then the legacy
\* query: the cards of the topic when a topicId is given, else the cards of the user
getCards(userId, topicId) ==
  IF getUserCards(userId, topicId) # {} THEN getUserCards(userId, topicId)
  ELSE IF topicId # NoTopic THEN {c \in DOMAIN cards : cards[c].topicId = topicId}
  ELSE {c \in DOMAIN cards : cards[c].userId = userId}

\* a direct call of getCards; the value is the set of ids of the cards returned
GetCards(actor, topicId) ==
  /\ IF ~getCurrentUserId(actor).ok
     THEN result' = Res("getCards", actor, topicId, NoArg, "unauthenticated", {})
     ELSE result' = Res("getCards", actor, topicId, NoArg, "ok", getCards(actor, topicId))
  /\ UNCHANGED <<store, inflight, component, nextId, screen>>

\* ------------------------------------------------------------------ friends
\* the users whose profile screens are in use
FriendUsers == {"u1", "u2"}

\* the friend requests from one user to another
RequestsBetween(fromUserId, toUserId) ==
  {r \in DOMAIN friendRequests : /\ friendRequests[r].fromUserId = fromUserId
                                 /\ friendRequests[r].toUserId = toUserId}

\* the query of the requests listener: the pending requests sent to the user
PendingRequestsTo(userId) ==
  {r \in DOMAIN friendRequests : /\ friendRequests[r].toUserId = userId
                                 /\ friendRequests[r].status = "pending"}

\* the query of the sent-requests listener: the pending requests the user sent
PendingRequestsFrom(userId) ==
  {r \in DOMAIN friendRequests : /\ friendRequests[r].fromUserId = userId
                                 /\ friendRequests[r].status = "pending"}

\* a listener hands the screen copies of the documents: the fields that never change
RequestCopy(r) ==
  [id |-> r, fromUserId |-> friendRequests[r].fromUserId,
   toUserId |-> friendRequests[r].toUserId]

\* getFriends that forgets the requests the user received
getFriendsSentOnly(userId) ==
  IF userId = NoUser THEN {}
  ELSE {friendRequests[r].toUserId :
          r \in {q \in DOMAIN friendRequests : /\ friendRequests[q].fromUserId = userId
                                               /\ friendRequests[q].status = "accepted"}}

\* getFriends: the other party of every accepted request, each once; [] on any error
getFriends(userId) ==
  IF userId = NoUser THEN {}
  ELSE {friendRequests[r].toUserId :
          r \in {q \in DOMAIN friendRequests : /\ friendRequests[q].fromUserId = userId
                                               /\ friendRequests[q].status = "accepted"}}
       \cup
       {friendRequests[r].fromUserId :
          r \in {q \in DOMAIN friendRequests : /\ friendRequests[q].toUserId = userId
                                               /\ friendRequests[q].status = "accepted"}}

\* the snapshot callback of the requests listener
OnRequestsSnapshot(u) ==
  /\ profile[u].friendRequests # {RequestCopy(r) : r \in PendingRequestsTo(u)}
  /\ profile' = [profile EXCEPT ![u].friendRequests =
                   {RequestCopy(r) : r \in PendingRequestsTo(u)}]
  /\ UNCHANGED <<topics, cards, sharedCards, myCards, inflight, component, challenges, completedChallenges, users,
                 nextId, screen, result, friendRequests, friends>>

\* the snapshot callback of the sent-requests listener
OnSentSnapshot(u) ==
  /\ profile[u].sentRequests # {RequestCopy(r) : r \in PendingRequestsFrom(u)}
  /\ profile' = [profile EXCEPT ![u].sentRequests =
                   {RequestCopy(r) : r \in PendingRequestsFrom(u)}]
  /\ UNCHANGED <<topics, cards, sharedCards, myCards, inflight, component, challenges, completedChallenges, users,
                 nextId, screen, result, friendRequests, friends>>

\* the rows searchUsers builds from the users collection and the screen's lists
searchUsers(u, prof) ==
  {[userId |-> v,
    isFriend |-> v \in prof.friends,
    hasPendingRequest |-> \/ \E r \in prof.sentRequests : r.toUserId = v
                          \/ \E r \in prof.friendRequests : r.fromUserId = v,
    requestSentByMe |-> \E r \in prof.sentRequests : r.toUserId = v] :
   v \in {w \in Users \ {u} : users[w].exists}}

\* the search effect: the query matches every user
SearchUsers(u) ==
  /\ profile[u].searchResults # searchUsers(u, profile[u])
  /\ profile' = [profile EXCEPT ![u].searchResults = searchUsers(u, profile[u])]
  /\ UNCHANGED <<topics, cards, sharedCards, myCards, inflight, component, challenges, completedChallenges, users,
                 nextId, screen, result, friendRequests, friends>>

\* the rows of the search list that show the Add button
Addable(u) ==
  {row.userId : row \in {s \in profile[u].searchResults :
                           ~s.isFriend /\ ~s.hasPendingRequest}}

\* sendFriendRequest, pressed on a row of the search list
SendFriendRequest(u, toUserId) ==
  /\ toUserId \in Addable(u)
  /\ IF PendingRequestsFrom(u) \cap RequestsBetween(u, toUserId) # {}
     THEN /\ result' = Res("sendFriendRequest", u, NoId, toUserId, "already-sent", NoId)
          /\ UNCHANGED <<friendRequests, nextId, profile>>
     ELSE /\ friendRequests' = Put(friendRequests, 60 + nextId.requests + 1,
                                   [fromUserId |-> u, toUserId |-> toUserId,
                                    status |-> "pending"])
          /\ nextId' = [nextId EXCEPT !.requests = @ + 1]
          /\ profile' = [profile EXCEPT ![u].searchResults = searchUsers(u, profile[u])]
          /\ result' = Res("sendFriendRequest", u, 60 + nextId.requests + 1, toUserId, "ok",
                           NoId)
  /\ UNCHANGED <<topics, cards, sharedCards, myCards, inflight, component, challenges, completedChallenges, users,
                 screen, friends>>

\* acceptFriendRequest that undoes its first two writes when the third is refused
AcceptFriendRequestRollingBack(u, request, friendWrite) ==
  /\ request \in profile[u].friendRequests
  /\ IF request.id \notin DOMAIN friendRequests
     THEN /\ result' = Res("acceptFriendRequest", u, request.id, request.fromUserId, "error",
                           NoId)
          /\ UNCHANGED <<friendRequests, friends, profile>>
     ELSE IF ~friendWrite
     THEN /\ result' = Res("acceptFriendRequest", u, request.id, request.fromUserId,
                           "partial-success", NoId)
          /\ UNCHANGED <<friendRequests, friends, profile>>
     ELSE /\ friendRequests' = [friendRequests EXCEPT ![request.id].status = "accepted"]
          /\ friends' = [friends EXCEPT ![u] = @ \cup {request.fromUserId},
                                        ![request.fromUserId] = @ \cup {u}]
          /\ profile' = [profile EXCEPT ![u].friends = friends'[u]]
          /\ result' = Res("acceptFriendRequest", u, request.id, request.fromUserId, "ok",
                           NoId)
  /\ UNCHANGED <<topics, cards, sharedCards, myCards, inflight, component, challenges, completedChallenges, users,
                 nextId, screen>>

\* acceptFriendRequest, pressed on a row of the requests list; friendWrite tells
\* whether the security rules allow the write to the requester's document
AcceptFriendRequest(u, request, friendWrite) ==
  /\ request \in profile[u].friendRequests
  /\ IF request.id \notin DOMAIN friendRequests
     THEN /\ result' = Res("acceptFriendRequest", u, request.id, request.fromUserId, "error",
                           NoId)
          /\ UNCHANGED <<friendRequests, friends, profile>>
     ELSE /\ friendRequests' = [friendRequests EXCEPT ![request.id].status = "accepted"]
          /\ friends' = IF friendWrite
                        THEN [friends EXCEPT ![u] = @ \cup {request.fromUserId},
                                             ![request.fromUserId] = @ \cup {u}]
                        ELSE [friends EXCEPT ![u] = @ \cup {request.fromUserId}]
          /\ profile' = [profile EXCEPT ![u].friends = friends'[u]]
          /\ result' = Res("acceptFriendRequest", u, request.id, request.fromUserId,
                           IF friendWrite THEN "ok" ELSE "partial-success", NoId)
  /\ UNCHANGED <<topics, cards, sharedCards, myCards, inflight, component, challenges, completedChallenges, users,
                 nextId, screen>>

\* rejectFriendRequest, pressed on a row of the requests list
RejectFriendRequest(u, request) ==
  /\ request \in profile[u].friendRequests
  /\ IF request.id \notin DOMAIN friendRequests
     THEN /\ result' = Res("rejectFriendRequest", u, request.id, NoArg, "error", NoId)
          /\ UNCHANGED friendRequests
     ELSE /\ friendRequests' = [friendRequests EXCEPT ![request.id].status = "rejected"]
          /\ result' = Res("rejectFriendRequest", u, request.id, NoArg, "ok", NoId)
  /\ UNCHANGED <<topics, cards, sharedCards, myCards, inflight, component, challenges, completedChallenges, users,
                 nextId, screen, friends, profile>>

\* loadFriendsData, run when the screen gains focus: reads the user's friends array
LoadFriendsData(u) ==
  /\ profile[u].friends # friends[u]
  /\ profile' = [profile EXCEPT ![u].friends = friends[u]]
  /\ UNCHANGED <<topics, cards, sharedCards, myCards, inflight, component, challenges, completedChallenges, users,
                 nextId, screen, result, friendRequests, friends>>

\* removeFriend of the profile screen that deletes only the requests the user sent
removeFriendSentOnly(u, friendId, friendWrite) ==
  /\ friendId \in profile[u].friends
  /\ friendRequests' = RemoveAll(friendRequests, RequestsBetween(u, friendId))
  /\ friends' = IF friendWrite
                THEN [friends EXCEPT ![u] = @ \ {friendId}, ![friendId] = @ \ {u}]
                ELSE [friends EXCEPT ![u] = @ \ {friendId}]
  /\ profile' = [profile EXCEPT ![u].friends = friends'[u]]
  /\ result' = Res("removeFriend", u, NoId, friendId, "ok", NoId)
  /\ UNCHANGED <<topics, cards, sharedCards, myCards, inflight, component, challenges, completedChallenges, users,
                 nextId, screen>>

\* removeFriend of the profile screen, confirmed on a row of the friends list;
\* friendWrite tells whether the write to the friend's document is allowed
removeFriend(u, friendId, friendWrite) ==
  /\ friendId \in profile[u].friends
  /\ friendRequests' = RemoveAll(friendRequests,
                              RequestsBetween(u, friendId) \cup RequestsBetween(friendId, u))
  /\ friends' = IF friendWrite
                THEN [friends EXCEPT ![u] = @ \ {friendId}, ![friendId] = @ \ {u}]
                ELSE [friends EXCEPT ![u] = @ \ {friendId}]
  /\ profile' = [profile EXCEPT ![u].friends = friends'[u]]
  /\ result' = Res("removeFriend", u, NoId, friendId, "ok", NoId)
  /\ UNCHANGED <<topics, cards, sharedCards, myCards, inflight, component, challenges, completedChallenges, users,
                 nextId, screen>>

\* removeFriend of firestore.js: deletes the requests of the pair, fails when there are none
RemoveFriend(actor, friendId) ==
  /\ IF ~getCurrentUserId(actor).ok
     THEN /\ result' = Res("removeFriend", actor, NoId, friendId, "unauthenticated", NoId)
          /\ UNCHANGED friendRequests
     ELSE IF RequestsBetween(actor, friendId) \cup RequestsBetween(friendId, actor) = {}
     THEN /\ result' = Res("removeFriend", actor, NoId, friendId, "not-found", NoId)
          /\ UNCHANGED friendRequests
     ELSE /\ friendRequests' = RemoveAll(friendRequests, RequestsBetween(actor, friendId)
                                                       \cup RequestsBetween(friendId, actor))
          /\ result' = Res("removeFriend", actor, NoId, friendId, "ok", NoId)
  /\ UNCHANGED <<topics, cards, sharedCards, myCards, inflight, component, challenges, completedChallenges, users,
                 nextId, screen, friends, profile>>

\* ------------------------------------------------------------------ profile component
\* cleanupListeners: every ref that holds an unsubscribe function calls it and
\* becomes null
cleanupListeners(c) ==
  [c EXCEPT !.subscribed = @ \ {c.unsubscribeStats, c.unsubscribeRequests,
                                c.unsubscribeSentRequests},
            !.unsubscribeStats = NoListener,
            !.unsubscribeRequests = NoListener,
            !.unsubscribeSentRequests = NoListener]

\* the cleanup of the first effect: the component unmounts
Unmount(u) ==
  /\ component[u].isMounted
  /\ component' = [component EXCEPT ![u] = [cleanupListeners(@) EXCEPT !.isMounted = FALSE]]
  /\ UNCHANGED <<store, inflight, nextId, screen, result>>

\* loadUserStats up to its first await: it returns at once on an unmounted
\* component, else it unsubscribes the listener its ref holds
BeginLoadUserStats(u) ==
  /\ component[u].isMounted
  /\ component[u].loads < MaxLoads
  /\ LET c == component[u]
         n == c.loads + 1
     IN component' = [component EXCEPT ![u] =
          [c EXCEPT !.subscribed = @ \ {c.unsubscribeStats},
                    !.unsubscribeStats = NoListener,
                    !.awaiting = @ \cup {<<"loadUserStats", n>>},
                    !.loads = n]]
  /\ UNCHANGED <<store, inflight, nextId, screen, result>>

\* loadUserStats after its awaits: onSnapshot subscribes a listener and the ref
\* takes its unsubscribe function, whatever the ref held and whether or not the
\* component is still mounted; when an await threw, nothing is subscribed
FinishLoadUserStats(u, n, ok) ==
  /\ <<"loadUserStats", n>> \in component[u].awaiting
  /\ LET c == component[u] IN
     component' = [component EXCEPT ![u] =
       IF ok THEN [c EXCEPT !.awaiting = @ \ {<<"loadUserStats", n>>},
                            !.subscribed = @ \cup {<<"stats", n>>},
                            !.unsubscribeStats = <<"stats", n>>]
       ELSE [c EXCEPT !.awaiting = @ \ {<<"loadUserStats", n>>}]]
  /\ UNCHANGED <<store, inflight, nextId, screen, result>>

\* loadFriendsData up to its first await
BeginLoadFriendsData(u) ==
  /\ component[u].isMounted
  /\ component[u].loads < MaxLoads
  /\ LET c == component[u]
         n == c.loads + 1
     IN component' = [component EXCEPT ![u] =
          [c EXCEPT !.subscribed = @ \ {c.unsubscribeRequests, c.unsubscribeSentRequests},
                    !.unsubscribeRequests = NoListener,
                    !.unsubscribeSentRequests = NoListener,
                    !.awaiting = @ \cup {<<"loadFriendsData", n>>},
                    !.loads = n]]
  /\ UNCHANGED <<store, inflight, nextId, screen, result>>

\* loadFriendsData after its awaits: setFriends on a mounted component, then the
\* two onSnapshot calls, which look at neither the refs nor isMountedRef
FinishLoadFriendsData(u, n, ok) ==
  /\ <<"loadFriendsData", n>> \in component[u].awaiting
  /\ LET c == component[u] IN
     component' = [component EXCEPT ![u] =
       IF ok THEN [c EXCEPT !.awaiting = @ \ {<<"loadFriendsData", n>>},
                            !.subscribed = @ \cup {<<"requests", n>>, <<"sent", n>>},
                            !.unsubscribeRequests = <<"requests", n>>,
                            !.unsubscribeSentRequests = <<"sent", n>>]
       ELSE [c EXCEPT !.awaiting = @ \ {<<"loadFriendsData", n>>}]]
  /\ profile' = IF ok /\ component[u].isMounted
                THEN [profile EXCEPT ![u].friends = friends[u]] ELSE profile
  /\ UNCHANGED <<topics, cards, sharedCards, myCards, challenges, completedChallenges, users,
                 friendRequests, friends, inflight, nextId, screen, result>>

\* a subscribed requests listener delivers a snapshot: its callback returns at
\* once on an unmounted component
RequestsListener(u, n) ==
  /\ <<"requests", n>> \in component[u].subscribed
  /\ component[u].isMounted
  /\ OnRequestsSnapshot(u)

\* a subscribed sent-requests listener delivers a snapshot
SentRequestsListener(u, n) ==
  /\ <<"sent", n>> \in component[u].subscribed
  /\ component[u].isMounted
  /\ OnSentSnapshot(u)

\* ------------------------------------------------------------------ calls in flight
\* An asynchronous function gives way at every await: another call can run
\* between its read of a document and the write it derives from that read.

\* the call of a user has returned: the user can call again
Settle(u) ==
  /\ inflight[u].pc = "done"
  /\ inflight' = [inflight EXCEPT ![u] = Idle]
  /\ UNCHANGED <<store, nextId, screen, result, component>>

\* completeChallenge up to the answer of its getDoc: the challenge as it was read
BeginCompleteChallenge(u, challengeId, userAnswer) ==
  /\ inflight[u] = Idle
  /\ challengeId \in DOMAIN challenges
  /\ inflight' = [inflight EXCEPT ![u] =
                    [pc |-> "read", op |-> "completeChallenge", id |-> challengeId,
                     userAnswer |-> userAnswer, challengeData |-> challenges[challengeId]]]
  /\ UNCHANGED <<store, nextId, screen, result, component>>

\* completeChallenge from its updateDoc on: the recipients array built from the
\* challenge as it was read replaces the stored one, then the record is written
FinishCompleteChallenge(u) ==
  /\ inflight[u].pc = "read"
  /\ inflight[u].op = "completeChallenge"
  /\ nextId.records < MaxRecords
  /\ LET challengeId == inflight[u].id
         challengeData == inflight[u].challengeData
         userAnswer == inflight[u].userAnswer
         correctAnswer == challengeData.card.vocabulary
         isCorrect == IsCorrect(userAnswer, correctAnswer)
         score == Score(isCorrect)
         recordId == 50 + nextId.records + 1
     IN
     /\ challenges' = [challenges EXCEPT ![challengeId].recipients =
                         CompletedRecipients(challengeData.recipients, u, score, userAnswer)]
     /\ completedChallenges' =
          Put(completedChallenges, recordId,
              [userId |-> u, challengeId |-> challengeId,
               senderId |-> challengeData.senderId, card |-> challengeData.card,
               userAnswer |-> userAnswer, userScore |-> score, isCorrect |-> isCorrect])
     /\ users' = IF users[u].exists
                 THEN [users EXCEPT ![u].completedChallenges = @ \cup {challengeId}]
                 ELSE users
     /\ nextId' = [nextId EXCEPT !.records = @ + 1]
     /\ result' = Res("completeChallenge", u, challengeId, userAnswer, "ok",
                      [isCorrect |-> isCorrect, score |-> score,
                       correctAnswer |-> correctAnswer])
     /\ inflight' = [inflight EXCEPT ![u] =
                       [pc |-> "done", op |-> "completeChallenge", id |-> challengeId]]
  /\ UNCHANGED <<topics, cards, sharedCards, myCards, social, screen, component>>

\* rejectChallenge up to the answer of its getDoc
BeginRejectChallenge(u, challengeId) ==
  /\ inflight[u] = Idle
  /\ challengeId \in DOMAIN challenges
  /\ inflight' = [inflight EXCEPT ![u] =
                    [pc |-> "read", op |-> "rejectChallenge", id |-> challengeId,
                     challengeData |-> challenges[challengeId]]]
  /\ UNCHANGED <<store, nextId, screen, result, component>>

\* rejectChallenge from its updateDoc on
FinishRejectChallenge(u) ==
  /\ inflight[u].pc = "read"
  /\ inflight[u].op = "rejectChallenge"
  /\ challenges' = [challenges EXCEPT ![inflight[u].id].recipients =
                      RejectedRecipients(inflight[u].challengeData.recipients, u)]
  /\ result' = Res("rejectChallenge", u, inflight[u].id, NoArg, "ok", NoId)
  /\ inflight' = [inflight EXCEPT ![u] =
                    [pc |-> "done", op |-> "rejectChallenge", id |-> inflight[u].id]]
  /\ UNCHANGED <<topics, cards, sharedCards, myCards, social, completedChallenges, users,
                 nextId, screen, component>>

\* deleteCard through removeCardFromCollection, up to the answers of its reads:
\* what the batch built from them will delete and decrement. s is the client the
\* call runs on; one account can be signed in on two clients.
BeginDeleteCard(s, actor, cardId) ==
  /\ inflight[s] = Idle
  /\ IF ~getCurrentUserId(actor).ok
     THEN /\ result' = Res("deleteCard", actor, cardId, NoArg, "unauthenticated", NoId)
          /\ UNCHANGED <<store, inflight, component, nextId, screen>>
     ELSE LET inMyCards == <<actor, cardId>> \in DOMAIN myCards
              inCards == cardId \in DOMAIN cards
              dataTopic == IF inMyCards THEN myCards[<<actor, cardId>>].topicId
                           ELSE IF inCards THEN cards[cardId].topicId ELSE NoTopic
              dataShared == IF inMyCards THEN myCards[<<actor, cardId>>].sharedCardId ELSE NoId
          IN
          /\ inflight' = [inflight EXCEPT ![s] =
               [pc |-> "read", op |-> "deleteCard", actor |-> actor, id |-> cardId,
                hasData |-> inMyCards \/ inCards,
                deleteMine |-> inMyCards,
                deleteMain |-> ~inMyCards /\ inCards /\ cards[cardId].userId = actor,
                sharedCardId |-> IF dataShared \in DOMAIN sharedCards THEN dataShared ELSE NoId,
                topicId |-> IF dataTopic \in DOMAIN topics THEN dataTopic ELSE NoTopic]]
          /\ UNCHANGED <<store, nextId, screen, result, component>>

\* a commit that looks at the card again and leaves the count alone when the
\* card is no longer there
FinishDeleteCardRevalidating(s) ==
  /\ inflight[s].pc = "read"
  /\ inflight[s].op = "deleteCard"
  /\ LET call == inflight[s]
         there == call.id \in DOMAIN cards
     IN
     /\ cards' = IF call.deleteMain THEN Remove(cards, call.id) ELSE cards
     /\ topics' = IF there /\ call.topicId \in DOMAIN topics
                  THEN IncrementCardCount(topics, call.topicId, -1) ELSE topics
     /\ result' = Res("deleteCard", call.actor, call.id, NoArg, "ok", NoId)
     /\ inflight' = [inflight EXCEPT ![s] = [pc |-> "done", op |-> "deleteCard", id |-> call.id]]
     /\ UNCHANGED <<sharedCards, myCards, social, challenges, completedChallenges, users,
                    nextId, screen, component>>

\* deleteCard from batch.commit on. The batch holds what the reads decided: its
\* deletes succeed on a document that is already gone, its updates refuse the
\* whole batch when their document is gone; then deleteCard falls back to the
\* legacy delete, which reads the card again.
FinishDeleteCard(s) ==
  /\ inflight[s].pc = "read"
  /\ inflight[s].op = "deleteCard"
  /\ LET call == inflight[s]
         cardId == call.id
         actor == call.actor
         commits == /\ call.sharedCardId # NoId => call.sharedCardId \in DOMAIN sharedCards
                    /\ call.topicId # NoTopic => call.topicId \in DOMAIN topics
         done == [pc |-> "done", op |-> "deleteCard", id |-> cardId]
     IN
     /\ inflight' = [inflight EXCEPT ![s] = done]
     /\ IF ~call.hasData
        THEN /\ result' = Res("deleteCard", actor, cardId, NoArg, "ok", NoId)
             /\ UNCHANGED <<store, nextId, screen, component>>
        ELSE IF commits
        THEN /\ call.topicId # NoTopic => topics[call.topicId].cardCount > 0 - MaxDrift
             /\ myCards' = IF call.deleteMine THEN Remove(myCards, <<actor, cardId>>) ELSE myCards
             /\ cards' = IF call.deleteMain THEN Remove(cards, cardId) ELSE cards
             /\ sharedCards' = IF call.sharedCardId # NoId
                               THEN [sharedCards EXCEPT ![call.sharedCardId].userCount = @ - 1]
                               ELSE sharedCards
             /\ topics' = IF call.topicId # NoTopic
                          THEN IncrementCardCount(topics, call.topicId, -1) ELSE topics
             /\ result' = Res("deleteCard", actor, cardId, NoArg, "ok", NoId)
             /\ UNCHANGED <<challenges, completedChallenges, users, nextId, screen, social, component>>
        ELSE \* legacy delete
             IF cardId \notin DOMAIN cards
             THEN /\ result' = Res("deleteCard", actor, cardId, NoArg, "not-found", NoId)
                  /\ UNCHANGED <<store, nextId, screen, component>>
             ELSE IF cards[cardId].userId # actor
             THEN /\ result' = Res("deleteCard", actor, cardId, NoArg, "access-denied", NoId)
                  /\ UNCHANGED <<store, nextId, screen, component>>
             ELSE IF cards[cardId].topicId # NoTopic /\ cards[cardId].topicId \notin DOMAIN topics
             THEN /\ result' = Res("deleteCard", actor, cardId, NoArg, "store-error", NoId)
                  /\ UNCHANGED <<store, nextId, screen, component>>
             ELSE /\ cards' = Remove(cards, cardId)
                  /\ topics' = IF cards[cardId].topicId # NoTopic
                               THEN IncrementCardCount(topics, cards[cardId].topicId, -1)
                               ELSE topics
                  /\ result' = Res("deleteCard", actor, cardId, NoArg, "ok", NoId)
                  /\ UNCHANGED <<sharedCards, myCards, social, challenges, completedChallenges,
                                 users, nextId, screen, component>>


\* addSharedCardFromChallenge up to the answer of its query: the ids it found
BeginAddSharedCardFromChallenge(s, vocabulary, definition, senderId, recipientId) ==
  /\ inflight[s] = Idle
  /\ inflight' = [inflight EXCEPT ![s] =
       [pc |-> "read", op |-> "addSharedCardFromChallenge",
        challengeData |-> [vocabulary |-> vocabulary, definition |-> definition,
                           senderId |-> senderId, recipientId |-> recipientId],
        snapshot |-> ExistingSharedCards(vocabulary, definition, recipientId)]]
  /\ UNCHANGED <<store, nextId, screen, result, component>>

\* addSharedCardFromChallenge from the answer of its query on: the first id the
\* query found, or addDoc when it found none; the collection is not asked again
FinishAddSharedCardFromChallenge(s) ==
  /\ inflight[s].pc = "read"
  /\ inflight[s].op = "addSharedCardFromChallenge"
  /\ LET call == inflight[s]
         data == call.challengeData
         created == call.snapshot = {}
         id == IF created THEN 30 + nextId.sharedCards + 1 ELSE FirstDoc(call.snapshot)
     IN
     /\ created => nextId.sharedCards < MaxShared
     /\ sharedCards' = IF created
                       THEN Put(sharedCards, id,
                                [vocabulary |-> data.vocabulary, definition |-> data.definition,
                                 senderId |-> data.senderId, recipientId |-> data.recipientId,
                                 userCount |-> 0])
                       ELSE sharedCards
     /\ nextId' = [nextId EXCEPT !.sharedCards = IF created THEN @ + 1 ELSE @]
     /\ result' = Res("addSharedCardFromChallenge", s, id, data, "ok", id)
     /\ inflight' = [inflight EXCEPT ![s] =
                       [pc |-> "done", op |-> "addSharedCardFromChallenge", id |-> id]]
     /\ UNCHANGED <<topics, cards, myCards, social, challenges, completedChallenges, users, screen, component>>

\* addUserXP up to the answer of its getDoc: whether the user document exists
BeginAddUserXP(s, actor, xpAmount) ==
  /\ inflight[s] = Idle
  /\ IF ~getCurrentUserId(actor).ok
     THEN /\ result' = Res("addUserXP", actor, NoId, NoArg, "unauthenticated", xpAmount)
          /\ UNCHANGED <<store, inflight, component, nextId, screen>>
     ELSE /\ inflight' = [inflight EXCEPT ![s] =
               [pc |-> "read", op |-> "addUserXP", actor |-> actor, xpAmount |-> xpAmount,
                exists |-> users[actor].exists]]
          /\ UNCHANGED <<store, component, nextId, screen, result>>

\* addUserXP from the answer of its getDoc on: updateDoc with increment when the
\* document was there, else setDoc of a new document with totalXP: xpAmount
FinishAddUserXP(s) ==
  /\ inflight[s].pc = "read"
  /\ inflight[s].op = "addUserXP"
  /\ LET call == inflight[s]
         userId == call.actor
     IN
     /\ users[userId].totalXP + call.xpAmount <= MaxAwards * RewardXP
     /\ users' = IF call.exists
                 THEN [users EXCEPT ![userId].totalXP = @ + call.xpAmount]
                 ELSE [users EXCEPT ![userId] = [exists |-> TRUE, totalXP |-> call.xpAmount,
                                                 completedChallenges |-> {}]]
     /\ result' = Res("addUserXP", userId, NoId, NoArg, "ok", call.xpAmount)
     /\ inflight' = [inflight EXCEPT ![s] =
                       [pc |-> "done", op |-> "addUserXP", xpAmount |-> call.xpAmount]]
     /\ UNCHANGED <<topics, cards, sharedCards, myCards, challenges, completedChallenges, social,
                    component, nextId, screen>>

\* deleteTopic up to the answer of its query for the topic's cards; the checks
\* before the query end the call at once when they fail
BeginDeleteTopic(s, actor, topicId, cardsQueryOk) ==
  /\ inflight[s] = Idle
  /\ LET auth == getCurrentUserId(actor)
         owned == IF auth.ok THEN getTopic(actor, topicId) ELSE "unauthenticated"
     IN
     IF owned # "ok"
     THEN /\ result' = Res("deleteTopic", actor, topicId, NoArg, owned, NoId)
          /\ UNCHANGED <<store, inflight, component, nextId, screen>>
     ELSE /\ inflight' = [inflight EXCEPT ![s] =
               [pc |-> "read", op |-> "deleteTopic", actor |-> actor, id |-> topicId,
                docs |-> IF cardsQueryOk THEN CardsOfTopic(topicId, actor) ELSE {}]]
          /\ UNCHANGED <<store, component, nextId, screen, result>>

\* deleteTopic from batch.commit on: the batch deletes the cards the query
\* returned and the topic
FinishDeleteTopic(s) ==
  /\ inflight[s].pc = "read"
  /\ inflight[s].op = "deleteTopic"
  /\ LET call == inflight[s] IN
     /\ cards' = [c \in DOMAIN cards \ call.docs |-> cards[c]]
     /\ topics' = Remove(topics, call.id)
     /\ result' = Res("deleteTopic", call.actor, call.id, NoArg, "ok", NoId)
     /\ inflight' = [inflight EXCEPT ![s] = [pc |-> "done", op |-> "deleteTopic", id |-> call.id]]
     /\ UNCHANGED <<sharedCards, myCards, social, challenges, completedChallenges, users,
                    component, nextId, screen>>

\* ------------------------------------------------------------------ specifications

Init ==
  /\ topics = <<>>
  /\ cards = <<>>
  /\ sharedCards = <<>>
  /\ myCards = <<>>
  /\ friendRequests = <<>>
  /\ friends = [u \in Users |-> {}]
  /\ profile = [u \in Users |-> NoProfile]
  /\ inflight = [u \in Users |-> Idle]
  /\ component = [u \in Users |-> Mounted]
  /\ challenges = <<>>
  /\ completedChallenges = <<>>
  /\ users = [u \in Users |-> [exists |-> FALSE, totalXP |-> 0, completedChallenges |-> {}]]
  /\ nextId = [topics |-> 0, cards |-> 0, sharedCards |-> 0, challenges |-> 0, records |-> 0,
              requests |-> 0]
  /\ screen = [u \in Users |-> NoScreen]
  /\ result = [op |-> "none", actor |-> NoUser, id |-> NoId, arg |-> NoArg, outcome |-> "ok",
               value |-> NoId, tick |-> 0]

\* the profile screens of two signed-in users: ensureUserDocument created their documents
InitFriends ==
  /\ topics = <<>>
  /\ cards = <<>>
  /\ sharedCards = <<>>
  /\ myCards = <<>>
  /\ friendRequests = <<>>
  /\ friends = [u \in Users |-> {}]
  /\ profile = [u \in Users |-> NoProfile]
  /\ inflight = [u \in Users |-> Idle]
  /\ component = [u \in Users |-> Mounted]
  /\ challenges = <<>>
  /\ completedChallenges = <<>>
  /\ users = [u \in Users |-> [exists |-> u \in FriendUsers, totalXP |-> 0,
                               completedChallenges |-> {}]]
  /\ nextId = [topics |-> 0, cards |-> 0, sharedCards |-> 0, challenges |-> 0, records |-> 0,
               requests |-> 0]
  /\ screen = [u \in Users |-> NoScreen]
  /\ result = [op |-> "none", actor |-> NoUser, id |-> NoId, arg |-> NoArg, outcome |-> "ok",
               value |-> NoId, tick |-> 0]

\* the friends handlers of the profile screens and the listeners that feed them
NextFriends ==
  \/ \E u \in FriendUsers : OnRequestsSnapshot(u)
  \/ \E u \in FriendUsers : OnSentSnapshot(u)
  \/ \E u \in FriendUsers : SearchUsers(u)
  \/ \E u \in FriendUsers : LoadFriendsData(u)
  \/ \E u \in FriendUsers, v \in FriendUsers :
       nextId.requests < MaxRequests /\ SendFriendRequest(u, v)
  \/ \E u \in FriendUsers : \E r \in profile[u].friendRequests, w \in BOOLEAN :
       AcceptFriendRequest(u, r, w)
  \/ \E u \in FriendUsers : \E r \in profile[u].friendRequests : RejectFriendRequest(u, r)

SpecFriends == InitFriends /\ [][NextFriends]_vars

\* the same screens when every write of an accept goes through, and u1 rejects
\* requests and removes u2
NextUnfriend ==
  \/ \E u \in FriendUsers : OnRequestsSnapshot(u)
  \/ \E u \in FriendUsers : OnSentSnapshot(u)
  \/ \E u \in FriendUsers : SearchUsers(u)
  \/ \E u \in FriendUsers : LoadFriendsData(u)
  \/ \E u \in FriendUsers, v \in FriendUsers :
       nextId.requests < MaxRequests /\ SendFriendRequest(u, v)
  \/ \E u \in FriendUsers : \E r \in profile[u].friendRequests :
       AcceptFriendRequest(u, r, TRUE)
  \/ \E r \in profile["u1"].friendRequests : RejectFriendRequest("u1", r)
  \/ \E w \in BOOLEAN : removeFriend("u1", "u2", w)
  \/ RemoveFriend("u1", "u2")

SpecUnfriend == InitFriends /\ [][NextUnfriend]_vars

\* the users that earn experience
XPUsers == {"u1", "u2"}

\* the experience calls of two users, signed in or not
NextXP ==
  \/ \E a \in XPUsers \cup {NoUser}, x \in XPAmounts : AddUserXP(a, x)
  \/ \E a \in XPUsers \cup {NoUser} : GetUserXP(a)
  \/ \E u \in XPUsers : EnsureUserDocument(u)

SpecXP == Init /\ [][NextXP]_vars

\* the users that own topics
TopicActors == {"u1", "u2"}

\* topics created and filled by two users, rearranged and deleted by u1, who also
\* tries it on what u2 owns; a commit or a query of the store may be refused
NextTopics ==
  \/ \E u \in TopicActors : CreateTopic(u)
  \/ \E u \in TopicActors, t \in TopicIds \cup {NoTopic} :
       AddCardWithTopic(u, <<"a">>, <<"x">>, t)
  \/ \E c \in CardIds, t \in TopicIds \cup {NoTopic}, commits \in BOOLEAN :
       moveCardToTopic("u1", c, t, commits)
  \/ \E t \in TopicIds, cardsQueryOk \in BOOLEAN : deleteTopic("u1", t, cardsQueryOk)

SpecTopics == Init /\ [][NextTopics]_vars

\* two users create topics and cards and read their cards, by topic or all of them
NextRead ==
  \/ \E u \in TopicActors : CreateTopic(u)
  \/ \E u \in TopicActors, v \in Words, t \in TopicIds \cup {NoTopic} :
       AddCardWithTopic(u, v, <<"x">>, t)
  \/ \E u \in TopicActors \cup {NoUser}, t \in TopicIds \cup {NoTopic} : GetCards(u, t)

SpecRead == Init /\ [][NextRead]_vars

\* the topic and card operations, called one at a time by any user
NextCards ==
  \/ \E u \in CardActors : CreateTopic(u)
  \/ \E u \in CardActors, t \in TopicIds : DeleteTopic(u, t)
  \/ \E u \in CardActors, v \in Words, d \in CardDefinitions, t \in TopicIds \cup {NoTopic} :
       AddCardWithTopic(u, v, d, t)
  \/ \E u \in CardActors, c \in CardIds : DeleteCard(u, c)
  \/ \E u \in CardActors, c \in CardIds, t \in TopicIds \cup {NoTopic} : MoveCardToTopic(u, c, t)
  \/ \E u \in CardActors, c \in CardIds, p \in CardPatches : UpdateCard(u, c, p)

SpecCards == Init /\ [][NextCards]_vars

\* the shared-card operations, called one at a time, on cards of challenges u3 sent
SharedActors == {"u1", "u2"}
NextShared ==
  \/ \E a \in SharedActors \cup {NoUser}, v \in Words, d \in Definitions,
        r \in SharedActors :
       AddSharedCardFromChallenge(a, v, d, "u3", r)
  \/ \E u \in SharedActors \cup {NoUser}, c \in SharedIds, p \in Patches : UpdateSharedCard(u, c, p)
  \/ \E u \in SharedActors \cup {NoUser}, c \in SharedIds : DeleteSharedCard(u, c)

SpecShared == Init /\ [][NextShared]_vars

\* the challenge operations, called one at a time: u3 sends, u1 and u2 answer
Recipients == {"u1", "u2"}
RecipientLists == {<<"u1">>, <<"u1", "u2">>, <<"u2", "u1">>}
ChallengeAnswers == {<<"A", " ">>, <<"b">>}

\* a user document exists once the home or profile screen has written it: u1 has
\* one, u2 and u3 have none yet
InitUsers ==
  /\ topics = <<>>
  /\ cards = <<>>
  /\ sharedCards = <<>>
  /\ myCards = <<>>
  /\ friendRequests = <<>>
  /\ friends = [u \in Users |-> {}]
  /\ profile = [u \in Users |-> NoProfile]
  /\ inflight = [u \in Users |-> Idle]
  /\ component = [u \in Users |-> Mounted]
  /\ challenges = <<>>
  /\ completedChallenges = <<>>
  /\ users = [u \in Users |-> [exists |-> u = "u1", totalXP |-> 0,
                               completedChallenges |-> {}]]
  /\ nextId = [topics |-> 0, cards |-> 0, sharedCards |-> 0, challenges |-> 0, records |-> 0,
              requests |-> 0]
  /\ screen = [u \in Users |-> NoScreen]
  /\ result = [op |-> "none", actor |-> NoUser, id |-> NoId, arg |-> NoArg, outcome |-> "ok",
               value |-> NoId, tick |-> 0]

NextChallenge ==
  \/ \E d \in CardDefinitions, rs \in RecipientLists :
       nextId.challenges < MaxChallenges /\ SendChallenge("u3", <<"a">>, d, rs)
  \/ \E u \in Recipients \cup {NoUser}, c \in ChallengeIds, a \in ChallengeAnswers :
       CompleteChallenge(u, c, a)
  \/ \E u \in Recipients, c \in ChallengeIds : RejectChallenge(u, c)

SpecChallenge == InitUsers /\ [][NextChallenge]_vars

\* grading: u3 has sent u1 one challenge, whose vocabulary is any string, and u1
\* answers it once with any string
InitGrade ==
  /\ topics = <<>>
  /\ cards = <<>>
  /\ sharedCards = <<>>
  /\ myCards = <<>>
  /\ friendRequests = <<>>
  /\ friends = [u \in Users |-> {}]
  /\ profile = [u \in Users |-> NoProfile]
  /\ inflight = [u \in Users |-> Idle]
  /\ component = [u \in Users |-> Mounted]
  /\ \E v \in Strings :
       challenges = Put(<<>>, 41, [senderId |-> "u3",
                                   card |-> [vocabulary |-> v, definition |-> <<"x">>],
                                   recipients |-> PendingRecipients(<<"u1">>)])
  /\ completedChallenges = <<>>
  /\ users = [u \in Users |-> [exists |-> FALSE, totalXP |-> 0, completedChallenges |-> {}]]
  /\ nextId = [topics |-> 0, cards |-> 0, sharedCards |-> 0, challenges |-> 1, records |-> 0,
              requests |-> 0]
  /\ screen = [u \in Users |-> NoScreen]
  /\ result = [op |-> "sendChallenge", actor |-> "u3", id |-> 41, arg |-> <<"u1">>,
               outcome |-> "ok", value |-> 41, tick |-> 0]

NextGrade ==
  \E a \in Strings :
    /\ challenges[41].recipients[1].status = "pending"
    /\ CompleteChallenge("u1", 41, a)

SpecGrade == InitGrade /\ [][NextGrade]_vars

\* the application: u3 sends challenges, u1 and u2 work through them on their
\* challenge screens
NextApp ==
  \/ \E v \in Words, d \in CardDefinitions, rs \in RecipientLists :
       nextId.challenges < MaxInbox /\ SendChallenge("u3", v, d, rs)
  \/ \E u \in Recipients : LoadChallenges(u)
  \/ \E u \in Recipients, a \in ChallengeAnswers : HandleSubmitAnswer(u, a)
  \/ \E u \in Recipients : HandleAddCardAndXP(u)
  \/ \E u \in Recipients : HandleXPOnly(u)
  \/ \E u \in Recipients : OnRequestClose(u)
  \/ \E u \in Recipients : HandleRejectChallenge(u)
  \/ \E u \in Recipients : HandleTryAgain(u)
  \/ \E u \in Recipients : HandleNextChallenge(u)
  \/ \E u \in Recipients : HandlePreviousChallenge(u)

SpecApp == Init /\ [][NextApp]_vars

\* cards and challenges side by side: u1 files cards under topics, receives
\* challenges from u3, answers them and materialises their cards
NextFrame ==
  \/ CreateTopic("u1")
  \/ \E t \in TopicIds \cup {NoTopic} : AddCardWithTopic("u1", <<"a">>, <<"x">>, t)
  \/ nextId.challenges < MaxChallenges /\ SendChallenge("u3", <<"a">>, <<"x">>, <<"u1">>)
  \/ \E v \in Words : AddSharedCardFromChallenge("u1", v, <<"x">>, "u3", "u1")
  \/ \E c \in ChallengeIds, a \in ChallengeAnswers : CompleteChallenge("u1", c, a)

SpecFrame == Init /\ [][NextFrame]_vars

\* the challenge screen offers a user the challenges sent to that user
IsRecipient(u, challengeId) ==
  \E i \in 1..Len(challenges[challengeId].recipients) :
    challenges[challengeId].recipients[i].userId = u

\* two recipients answer or reject the challenges sent to them, their calls interleaved
NextAnswerRace ==
  \/ \E rl \in RecipientLists :
       nextId.challenges < MaxChallenges /\ SendChallenge("u3", <<"a">>, <<"x">>, rl)
  \/ \E u \in Recipients, c \in DOMAIN challenges, a \in ChallengeAnswers :
       IsRecipient(u, c) /\ BeginCompleteChallenge(u, c, a)
  \/ \E u \in Recipients : FinishCompleteChallenge(u)
  \/ \E u \in Recipients, c \in DOMAIN challenges :
       IsRecipient(u, c) /\ BeginRejectChallenge(u, c)
  \/ \E u \in Recipients : FinishRejectChallenge(u)
  \/ \E u \in Recipients : Settle(u)

SpecAnswerRace == InitUsers /\ [][NextAnswerRace]_vars

\* the clients one account is signed in on
Clients == {"u1", "u2"}

\* u1 files cards under topics and deletes them from two clients at once
NextDeleteRace ==
  \/ CreateTopic("u1")
  \/ \E t \in TopicIds \cup {NoTopic} : AddCardWithTopic("u1", <<"a">>, <<"x">>, t)
  \/ \E t \in TopicIds : DeleteTopic("u1", t)
  \/ \E s \in Clients, c \in CardIds : BeginDeleteCard(s, "u1", c)
  \/ \E s \in Clients : FinishDeleteCard(s)
  \/ \E s \in Clients : Settle(s)

SpecDeleteRace == Init /\ [][NextDeleteRace]_vars

\* two clients add the card of a challenge u3 sent, their calls interleaved;
\* u3 makes the same call on its own, from its query to its return in one step
NextDuplicate ==
  \/ \E s \in Clients, v \in Words, r \in Clients :
       BeginAddSharedCardFromChallenge(s, v, <<"x">>, "u3", r)
  \/ \E s \in Clients : FinishAddSharedCardFromChallenge(s)
  \/ \E s \in Clients : Settle(s)
  \/ \E v \in Words, r \in Clients : AddSharedCardFromChallenge("u3", v, <<"x">>, "u3", r)
  \/ \E c \in SharedIds : DeleteSharedCard("u1", c)

SpecDuplicate == Init /\ [][NextDuplicate]_vars

\* the profile component of u1 loads, listens and unmounts while u1 and u2
\* send each other friend requests
NextProfile ==
  \/ BeginLoadUserStats("u1")
  \/ \E n \in 1..MaxLoads, ok \in BOOLEAN : FinishLoadUserStats("u1", n, ok)
  \/ BeginLoadFriendsData("u1")
  \/ \E n \in 1..MaxLoads, ok \in BOOLEAN : FinishLoadFriendsData("u1", n, ok)
  \/ \E n \in 1..MaxLoads : RequestsListener("u1", n)
  \/ \E n \in 1..MaxLoads : SentRequestsListener("u1", n)
  \/ Unmount("u1")
  \/ \E u \in FriendUsers : component[u].isMounted /\ SearchUsers(u)
  \/ \E u \in FriendUsers, v \in FriendUsers :
       /\ component[u].isMounted
       /\ nextId.requests < MaxRequests
       /\ SendFriendRequest(u, v)

SpecProfile == InitFriends /\ [][NextProfile]_vars

\* u1 is rewarded on two clients at once; its profile screen may have created
\* its user document before
NextAwardRace ==
  \/ \E s \in Clients, x \in XPAmounts : BeginAddUserXP(s, "u1", x)
  \/ \E s \in Clients : FinishAddUserXP(s)
  \/ \E s \in Clients : Settle(s)
  \/ EnsureUserDocument("u1")

SpecAwardRace == Init /\ [][NextAwardRace]_vars

\* u1 adds and moves cards on one client while deleting topics on another; the
\* query for a topic's cards always answers
NextTopicRace ==
  \/ CreateTopic("u1")
  \/ \E t \in TopicIds \cup {NoTopic} : AddCardWithTopic("u1", <<"a">>, <<"x">>, t)
  \/ \E c \in CardIds, t \in TopicIds \cup {NoTopic} : MoveCardToTopic("u1", c, t)
  \/ \E s \in Clients, t \in TopicIds : BeginDeleteTopic(s, "u1", t, TRUE)
  \/ \E s \in Clients : FinishDeleteTopic(s)
  \/ \E s \in Clients : Settle(s)

SpecTopicRace == Init /\ [][NextTopicRace]_vars

\* ------------------------------------------------------------------ claims
\* the cards a topic's cardCount stands for
MatchingCards(t) ==
  {c \in DOMAIN cards : cards[c].topicId = t /\ cards[c].userId = topics[t].userId}

\* C1: after every addCardWithTopic, deleteCard and moveCardToTopic call, each
\* topic's cardCount equals the number of cards filed under it by its owner.
C1_CountConsistent ==
  \A t \in DOMAIN topics : topics[t].cardCount = Cardinality(MatchingCards(t))

\* a recipient entry that is completed or rejected
Terminal(entry) == entry.status \in {"completed", "rejected"}

\* C2: once a recipient's entry is completed or rejected, no completeChallenge or
\* rejectChallenge call changes its status, score or userAnswer.
C2_TerminalIsFinal ==
  [][\A c \in DOMAIN challenges : \A i \in 1..Len(challenges[c].recipients) :
       (Terminal(challenges[c].recipients[i])
        /\ result'.op \in {"completeChallenge", "rejectChallenge"})
       => /\ challenges'[c].recipients[i].status = challenges[c].recipients[i].status
          /\ challenges'[c].recipients[i].score = challenges[c].recipients[i].score
          /\ challenges'[c].recipients[i].userAnswer = challenges[c].recipients[i].userAnswer
    ]_vars

\* the shared cards that carry the triple of a call's argument
WithTriple(coll, arg) ==
  {s \in DOMAIN coll : /\ coll[s].vocabulary = arg.vocabulary
                       /\ coll[s].definition = arg.definition
                       /\ coll[s].recipientId = arg.recipientId}

\* the second of two consecutive addSharedCardFromChallenge calls with the same
\* vocabulary, definition and recipientId
SecondSameCall ==
  /\ result.op = "addSharedCardFromChallenge"
  /\ result'.op = "addSharedCardFromChallenge"
  /\ result'.arg.vocabulary = result.arg.vocabulary
  /\ result'.arg.definition = result.arg.definition
  /\ result'.arg.recipientId = result.arg.recipientId

\* C3 as stated: two sequential addSharedCardFromChallenge calls with the same
\* vocabulary, definition and recipientId return the same id and leave exactly one
\* shared card with that triple.
C3_TwiceExactlyOne ==
  [][SecondSameCall =>
       /\ result'.value = result.value
       /\ Cardinality(WithTriple(sharedCards', result'.arg)) = 1]_vars

\* C3 as amended: the two calls return the same id, the id of a card with that
\* triple; the second call creates nothing; and a call made when no card has the
\* triple leaves exactly one.
C3_TwiceSameIdNoNewCard ==
  [][/\ SecondSameCall =>
          /\ result'.value = result.value
          /\ result'.value \in WithTriple(sharedCards', result'.arg)
          /\ sharedCards' = sharedCards
     /\ (result'.op = "addSharedCardFromChallenge" /\ WithTriple(sharedCards, result'.arg) = {})
          => /\ WithTriple(sharedCards', result'.arg) = {result'.value}
             /\ sharedCards'[result'.value].senderId = result'.arg.senderId
    ]_vars

\* C3 witness: the same call made twice in a row, the second after the first
\* created the card
C3_Witness ==
  /\ result.op = "addSharedCardFromChallenge"
  /\ result.tick = 0
  /\ nextId.sharedCards = 1
  /\ WithTriple(sharedCards, result.arg) = {result.value}

\* C4: a shared card with senderId S and recipientId R exists only if some
\* challenge sent by S has R's recipient entry in status completed.
C4_SharedCardNeedsCompletedEntry ==
  \A s \in DOMAIN sharedCards :
    \E c \in DOMAIN challenges :
      /\ challenges[c].senderId = sharedCards[s].senderId
      /\ \E i \in 1..Len(challenges[c].recipients) :
           /\ challenges[c].recipients[i].userId = sharedCards[s].recipientId
           /\ challenges[c].recipients[i].status = "completed"

\* the caller of an edit is neither the creator of the owned card nor the
\* recipient of the shared card the id names
Stranger(actor, id) ==
  \/ id \in DOMAIN cards /\ cards[id].userId # actor
  \/ id \in DOMAIN sharedCards /\ sharedCards[id].recipientId # actor

\* C5: updateCard / updateSharedCard by a stranger fails with an authorization
\* error and changes no content; by the recipient of a shared card it succeeds and
\* applies the patch.
C5_EditAuthorization ==
  [][(result'.op \in {"updateCard", "updateSharedCard"} /\ result'.actor # NoUser) =>
       /\ Stranger(result'.actor, result'.id) =>
            /\ result'.outcome = "access-denied"
            /\ cards' = cards
            /\ sharedCards' = sharedCards
       /\ (result'.id \in DOMAIN sharedCards
           /\ sharedCards[result'.id].recipientId = result'.actor) =>
            /\ result'.outcome = "ok"
            /\ sharedCards'[result'.id].vocabulary = result'.arg.vocabulary
            /\ sharedCards'[result'.id].definition = result'.arg.definition
    ]_vars

\* C6: updateCard by the creator of an owned card whose id names no shared card
\* falls back to the owned lookup and applies the patch.
C6_OwnedCardIsPatched ==
  [][(/\ result'.op = "updateCard"
      /\ result'.id \in DOMAIN cards
      /\ result'.id \notin DOMAIN sharedCards
      /\ cards[result'.id].userId = result'.actor) =>
       /\ result'.outcome = "ok"
       /\ cards'[result'.id].vocabulary = result'.arg.vocabulary
       /\ cards'[result'.id].definition = result'.arg.definition
    ]_vars

\* C7: deleteCard by a user who is not the creator of the owned card fails with
\* an authorization error; the card still exists and no cardCount changes.
C7_DeleteNeedsOwner ==
  [][(/\ result'.op = "deleteCard"
      /\ result'.actor # NoUser
      /\ result'.id \in DOMAIN cards
      /\ cards[result'.id].userId # result'.actor) =>
       /\ result'.outcome = "access-denied"
       /\ cards' = cards
       /\ topics' = topics
    ]_vars

\* a string without the spaces before its first and after its last other character
Stripped(s) ==
  LET solid == {i \in 1..Len(s) : s[i] # " "} IN
  IF solid = {} THEN <<>>
  ELSE SubSeq(s, CHOOSE i \in solid : \A j \in solid : i <= j,
                 CHOOSE i \in solid : \A j \in solid : j <= i)

\* two characters that differ at most in case
SameLetter(c, d) ==
  \/ c = d
  \/ {c, d} = {"a", "A"}
  \/ {c, d} = {"b", "B"}

\* two strings that are equal once trimmed, case ignored
MatchesIgnoringCaseAndMargins(s, t) ==
  /\ Len(Stripped(s)) = Len(Stripped(t))
  /\ \A i \in 1..Len(Stripped(s)) : SameLetter(Stripped(s)[i], Stripped(t)[i])

\* C8: completeChallenge grades the answer correct exactly when it equals the
\* card's vocabulary after trimming both and ignoring case; the score is 100 when
\* correct and 0 otherwise, and the returned correctAnswer is the vocabulary.
C8_GradingIsTrimmedCaseInsensitive ==
  (result.op = "completeChallenge" /\ result.outcome = "ok") =>
    LET vocabulary == challenges[result.id].card.vocabulary IN
    /\ result.value.isCorrect <=> MatchesIgnoringCaseAndMargins(result.arg, vocabulary)
    /\ result.value.score = (IF result.value.isCorrect THEN 100 ELSE 0)
    /\ result.value.correctAnswer = vocabulary

\* C8 witness: an answer with spaces around it and in another case than the
\* vocabulary was graded correct with score 100
C8_Witness ==
  /\ result.op = "completeChallenge"
  /\ result.outcome = "ok"
  /\ result.value.isCorrect
  /\ result.value.score = 100
  /\ Len(result.arg) = 3
  /\ result.arg[1] = " "
  /\ result.arg[3] = " "
  /\ Len(challenges[result.id].card.vocabulary) = 1
  /\ result.arg[2] # challenges[result.id].card.vocabulary[1]

\* the actor of a completeChallenge call has a pending entry in the challenge
PendingEntries(c, u) ==
  {i \in 1..Len(challenges[c].recipients) :
     challenges[c].recipients[i].userId = u /\ challenges[c].recipients[i].status = "pending"}

\* the records the call added to the caller's completedChallenges
NewRecords == DOMAIN completedChallenges' \ DOMAIN completedChallenges

\* C9: completeChallenge by a recipient whose entry is pending completes that
\* entry with the computed score, the answer and a completedAt, writes one
\* CompletedChallengeRecord for the caller whether the answer is right or wrong,
\* and leaves the entries of the other recipients unchanged.
C9_CompleteUpdatesOwnEntry ==
  [][(/\ result'.op = "completeChallenge"
      /\ result'.actor # NoUser
      /\ result'.id \in DOMAIN challenges
      /\ PendingEntries(result'.id, result'.actor) # {}) =>
       LET before == challenges[result'.id].recipients
           after == challenges'[result'.id].recipients
       IN
       /\ result'.outcome = "ok"
       /\ Len(after) = Len(before)
       /\ \A i \in 1..Len(before) :
            IF before[i].userId = result'.actor
            THEN /\ after[i].userId = result'.actor
                 /\ after[i].status = "completed"
                 /\ after[i].score = result'.value.score
                 /\ after[i].score = (IF result'.value.isCorrect THEN 100 ELSE 0)
                 /\ after[i].userAnswer = result'.arg
                 /\ after[i].completedAt # NoDate
            ELSE after[i] = before[i]
       /\ Cardinality(NewRecords) = 1
       /\ \A r \in NewRecords :
            /\ completedChallenges'[r].userId = result'.actor
            /\ completedChallenges'[r].challengeId = result'.id
            /\ completedChallenges'[r].userAnswer = result'.arg
            /\ completedChallenges'[r].userScore = result'.value.score
            /\ completedChallenges'[r].isCorrect = result'.value.isCorrect
    ]_vars

\* C9 witness: a wrong answer completed the caller's entry of a challenge with two
\* recipients; the other recipient is still pending and the record is written
C9_Witness ==
  /\ result.op = "completeChallenge"
  /\ result.outcome = "ok"
  /\ ~result.value.isCorrect
  /\ \E i, j \in 1..Len(challenges[result.id].recipients) :
       /\ challenges[result.id].recipients[i].userId = result.actor
       /\ challenges[result.id].recipients[i].status = "completed"
       /\ challenges[result.id].recipients[i].score = 0
       /\ challenges[result.id].recipients[j].userId # result.actor
       /\ challenges[result.id].recipients[j].status = "pending"
  /\ \E r \in DOMAIN completedChallenges :
       /\ completedChallenges[r].userId = result.actor
       /\ completedChallenges[r].userScore = 0

\* C10: there is at most one CompletedChallengeRecord per (user, challenge), and a
\* record once written is never modified.
C10_OneRecordPerUserChallenge ==
  /\ \A r1, r2 \in DOMAIN completedChallenges :
       (/\ completedChallenges[r1].userId = completedChallenges[r2].userId
        /\ completedChallenges[r1].challengeId = completedChallenges[r2].challengeId)
       => r1 = r2


\* C11: completeChallenge never creates or modifies a card: 'cards', 'sharedCards'
\* and every topic's cardCount are the same before and after the call, and a
\* shared card appears only through an addSharedCardFromChallenge call.
C11_CompleteTouchesNoCard ==
  [][/\ result'.op = "completeChallenge" =>
          /\ cards' = cards
          /\ sharedCards' = sharedCards
          /\ topics' = topics
     /\ DOMAIN sharedCards' \ DOMAIN sharedCards # {} =>
          result'.op = "addSharedCardFromChallenge"
    ]_vars

\* C11 witness: a challenge was completed while the caller has a card filed under
\* a topic and a shared card
C11_Witness ==
  /\ result.op = "completeChallenge"
  /\ result.outcome = "ok"
  /\ sharedCards # <<>>
  /\ \E c \in DOMAIN cards : cards[c].topicId \in DOMAIN topics
  /\ \E t \in DOMAIN topics : topics[t].cardCount > 0

\* C12: when every write of acceptFriendRequest succeeds for a request from A
\* to B, getFriends as A lists B, getFriends as B lists A, and each user's
\* friends array holds the other.
C12_AcceptIsSymmetric ==
  (result.op = "acceptFriendRequest" /\ result.outcome = "ok") =>
    /\ result.actor \in getFriends(result.arg)
    /\ result.arg \in getFriends(result.actor)
    /\ result.arg \in friends[result.actor]
    /\ result.actor \in friends[result.arg]

\* a fully successful accept of a request that was still pending
C12_Witness ==
  /\ result.op = "acceptFriendRequest"
  /\ result.outcome = "ok"
  /\ result.id \in DOMAIN friendRequests
  /\ friendRequests[result.id].fromUserId = result.arg
  /\ friendRequests[result.id].toUserId = result.actor
  /\ result.arg \in getFriends(result.actor)

\* the pending requests between two users, in either direction
PendingBetween(a, b) ==
  {r \in DOMAIN friendRequests :
     /\ friendRequests[r].status = "pending"
     /\ \/ friendRequests[r].fromUserId = a /\ friendRequests[r].toUserId = b
        \/ friendRequests[r].fromUserId = b /\ friendRequests[r].toUserId = a}

\* C13: at most one pending friend request exists between any two users,
\* whichever of them sent it.
C13_OnePendingPerPair ==
  \A a \in Users, b \in Users : Cardinality(PendingBetween(a, b)) <= 1

\* C14: acceptFriendRequest on a request that is not pending, or by a user who
\* is not its toUserId, fails and leaves the request and the friends arrays as
\* they were.
C14_AcceptOnlyPendingByRecipient ==
  [][(/\ result' # result
      /\ result'.op = "acceptFriendRequest"
      /\ result'.id \in DOMAIN friendRequests
      /\ \/ friendRequests[result'.id].status # "pending"
         \/ friendRequests[result'.id].toUserId # result'.actor) =>
       /\ result'.outcome = "error"
       /\ friendRequests' = friendRequests
       /\ friends' = friends
    ]_vars

\* C15: when the write to the requester's friends array is refused, the accept
\* reports partial success, the requester's array is as before, the request is
\* accepted, the responder's array holds the requester, and getFriends of each
\* of the two lists the other.
C15_PartialSuccessKeepsWrites ==
  [][\A a \in Users, b \in Users :
       (/\ result' # result
        /\ result'.op = "acceptFriendRequest"
        /\ result'.outcome = "partial-success"
        /\ result'.actor = a
        /\ result'.arg = b) =>
         /\ friends'[b] = friends[b]
         /\ friendRequests'[result'.id].status = "accepted"
         /\ b \in friends'[a]
         /\ (b \in getFriends(a))'
         /\ (a \in getFriends(b))'
    ]_vars

\* a partial success that left the requester's friends array without the responder
C15_Witness ==
  /\ result.op = "acceptFriendRequest"
  /\ result.outcome = "partial-success"
  /\ result.actor \notin friends[result.arg]
  /\ result.arg \in friends[result.actor]
  /\ friendRequests[result.id].status = "accepted"

\* C16: after a successful removeFriend between two users no friend request of
\* the pair is left, in either direction and whatever its status, and getFriends
\* of neither lists the other.
C16_RemoveDeletesEveryRequest ==
  [][\A a \in Users, b \in Users :
       (/\ result' # result
        /\ result'.op = "removeFriend"
        /\ result'.outcome = "ok"
        /\ result'.actor = a
        /\ result'.arg = b) =>
         /\ (RequestsBetween(a, b) \cup RequestsBetween(b, a) = {})'
         /\ (b \notin getFriends(a))'
         /\ (a \notin getFriends(b))'
         /\ \A r \in DOMAIN friendRequests' : friendRequests'[r] = friendRequests[r]
         /\ DOMAIN friendRequests \ DOMAIN friendRequests' =
              RequestsBetween(a, b) \cup RequestsBetween(b, a)
    ]_vars

\* a removal that deleted two requests of the pair, one in each direction
C16_Witness ==
  /\ result.op = "removeFriend"
  /\ result.outcome = "ok"
  /\ nextId.requests = 2
  /\ friendRequests = <<>>
  /\ result.actor \notin getFriends(result.arg)

\* C17: getUserXP of no user goes down when addUserXP is called with an amount
\* that is not negative; it is 0 for a user without a document; addUserXP(100)
\* raises the caller's getUserXP by exactly 100, creating the document with
\* totalXP 100 when there was none; getUserXP returns that total.
C17_XPIsMonotone ==
  [][/\ \A u \in Users :
          /\ (result' # result /\ result'.op = "addUserXP") =>
               (getUserXP(u))' >= getUserXP(u)
          /\ (~users[u].exists) => getUserXP(u) = 0
          /\ (/\ result' # result
              /\ result'.op = "addUserXP"
              /\ result'.outcome = "ok"
              /\ result'.actor = u) =>
               /\ (getUserXP(u))' = getUserXP(u) + result'.value
               /\ (~users[u].exists) =>
                    (users'[u].exists /\ users'[u].totalXP = result'.value)
               /\ \A v \in Users \ {u} : users'[v] = users[v]
          /\ (/\ result' # result
              /\ result'.op = "getUserXP"
              /\ result'.actor = u) => result'.value = getUserXP(u)
     /\ (result' # result /\ result'.op = "getUserXP") => users' = users
    ]_vars

\* getUserXP returned 100 more than nothing: the reward created the document
C17_Witness ==
  /\ result.op = "getUserXP"
  /\ result.actor = "u1"
  /\ result.value = RewardXP
  /\ users["u2"].exists
  /\ users["u2"].totalXP = 2 * RewardXP + 50

\* how much a move from one topic to another changes the cardCount of topic t
MoveDelta(t, oldTopicId, newTopicId) ==
  (IF t = newTopicId THEN 1 ELSE 0) - (IF t = oldTopicId THEN 1 ELSE 0)

\* C18: a moveCardToTopic that succeeds leaves the card in newTopicId, the old
\* topic's cardCount one lower and the new topic's one higher, and nothing else
\* changed; one that fails (card missing, card or topic of another user, refused
\* commit) leaves every card and every topic as it was.
C18_MoveIsAllOrNothing ==
  [][(result' # result /\ result'.op = "moveCardToTopic") =>
       IF result'.outcome = "ok"
       THEN /\ DOMAIN cards' = DOMAIN cards
            /\ DOMAIN topics' = DOMAIN topics
            /\ cards'[result'.id] = [cards[result'.id] EXCEPT !.topicId = result'.arg]
            /\ \A c \in DOMAIN cards \ {result'.id} : cards'[c] = cards[c]
            /\ \A t \in DOMAIN topics :
                 /\ topics'[t].userId = topics[t].userId
                 /\ topics'[t].cardCount =
                      topics[t].cardCount
                        + MoveDelta(t, cards[result'.id].topicId, result'.arg)
       ELSE /\ cards' = cards
            /\ topics' = topics
    ]_vars

\* the only card was moved into a topic that now counts it, next to an empty topic
C18_Witness ==
  /\ result.op = "moveCardToTopic"
  /\ result.outcome = "ok"
  /\ DOMAIN cards = {result.id}
  /\ result.arg \in DOMAIN topics
  /\ cards[result.id].topicId = result.arg
  /\ topics[result.arg].cardCount = 1
  /\ \E t \in DOMAIN topics : t # result.arg /\ topics[t].cardCount = 0

\* C19: deleteTopic by a user who does not own the topic fails and deletes
\* nothing; by the owner it removes the topic and exactly the owner's cards in
\* that topic, and leaves all other cards, topics and shared cards as they were.
C19_DeleteTopicCascades ==
  [][(result' # result /\ result'.op = "deleteTopic" /\ result'.id \in DOMAIN topics) =>
       IF topics[result'.id].userId # result'.actor
       THEN /\ result'.outcome # "ok"
            /\ topics' = topics
            /\ cards' = cards
            /\ sharedCards' = sharedCards
       ELSE /\ result'.outcome = "ok"
            /\ topics' = Remove(topics, result'.id)
            /\ cards' = RemoveAll(cards, CardsOfTopic(result'.id, result'.actor))
            /\ sharedCards' = sharedCards
    ]_vars

\* the cards a user created directly, those of one topic when a topicId is given
DirectCards(userId, topicId) ==
  {c \in DOMAIN cards : /\ cards[c].userId = userId
                        /\ topicId # NoTopic => cards[c].topicId = topicId}

\* C20: getCards returns the cards the user created directly together with the
\* cards the user's myCards entries refer to, and no card of another user.
C20_GetCardsIsOwnUnion ==
  (result.op = "getCards" /\ result.outcome = "ok") =>
    result.value = DirectCards(result.actor, result.id)
                     \cup getUserCards(result.actor, result.id)

\* C21: the cardCount of every topic is at least 0 in every state the topic and
\* card calls can reach.
C21_CardCountNotNegative ==
  \A t \in DOMAIN topics : topics[t].cardCount >= 0

\* the data-layer operations that act for the signed-in user
ActingOps ==
  {"createTopic", "deleteTopic", "addCardWithTopic", "updateCard", "deleteCard",
   "deleteSharedCard", "moveCardToTopic", "addSharedCardFromChallenge", "sendChallenge",
   "completeChallenge", "rejectChallenge", "addUserXP"}

\* C22: with no signed-in user, each of these operations fails with an
\* authentication error and changes nothing in the store.
C22_SignedOutCallsFail ==
  [][(/\ result'.tick # result.tick
      /\ result'.actor = NoUser
      /\ result'.op \in ActingOps) =>
       /\ result'.outcome = "unauthenticated"
       /\ store' = store
    ]_vars

\* C23: updateCard with an id that is neither a shared card nor an owned card
\* fails with a not-found error.
C23_UpdateOfMissingCardFails ==
  [][(/\ result'.tick # result.tick
      /\ result'.op = "updateCard"
      /\ result'.actor # NoUser
      /\ result'.id \notin DOMAIN cards
      /\ result'.id \notin DOMAIN sharedCards) =>
       result'.outcome = "not-found"
    ]_vars

\* the status a finished call of a recipient leaves in the recipient's entry
StatusOf(op) == IF op = "completeChallenge" THEN "completed" ELSE "rejected"

\* C24: when a recipient's completeChallenge or rejectChallenge has finished,
\* the recipient's own entry of the challenge has the status that call wrote,
\* however the calls of the other recipients were interleaved with it.
C24_OwnEntryKeepsItsStatus ==
  \A u \in Users :
    (inflight[u].pc = "done" /\ inflight[u].op \in {"completeChallenge", "rejectChallenge"}) =>
      \A i \in 1..Len(challenges[inflight[u].id].recipients) :
        challenges[inflight[u].id].recipients[i].userId = u =>
          challenges[inflight[u].id].recipients[i].status = StatusOf(inflight[u].op)

\* C25: the batch of a deleteCard call is built from what the call read and is
\* not looked at again when it commits: a call that read the card under an
\* existing topic takes one off that topic's cardCount when it commits, also
\* when another call has deleted the card in between.
C25_CommitDecrementsWhatItRead ==
  [][\A s \in Clients :
       (/\ inflight[s].pc = "read"
        /\ inflight[s].op = "deleteCard"
        /\ inflight'[s].pc = "done"
        /\ inflight[s].topicId \in DOMAIN topics) =>
          topics'[inflight[s].topicId].cardCount = topics[inflight[s].topicId].cardCount - 1
    ]_vars

\* two deleteCard calls on the same card have both committed, and the topic's
\* cardCount is one less than the number of cards filed under it
C25_Witness ==
  /\ inflight["u1"].pc = "done" /\ inflight["u1"].op = "deleteCard"
  /\ inflight["u2"].pc = "done" /\ inflight["u2"].op = "deleteCard"
  /\ inflight["u1"].id = inflight["u2"].id
  /\ inflight["u1"].id \notin DOMAIN cards
  /\ \E t \in DOMAIN topics : topics[t].cardCount = Cardinality(MatchingCards(t)) - 1

\* the shared cards that carry the vocabulary, definition and recipient of d
SameTriple(d) ==
  {c \in DOMAIN sharedCards : /\ sharedCards[c].vocabulary = d.vocabulary
                              /\ sharedCards[c].definition = d.definition
                              /\ sharedCards[c].recipientId = d.recipientId}

\* C26: a call of addSharedCardFromChallenge that runs on its own while a card
\* with its vocabulary, definition and recipient exists (one, or the two that
\* interleaved calls created) returns the id of one of those cards and creates none.
C26_LaterCallCreatesNoThird ==
  [][(/\ result'.tick # result.tick
      /\ result'.op = "addSharedCardFromChallenge"
      /\ inflight' = inflight
      /\ SameTriple(result'.arg) # {}) =>
         /\ sharedCards' = sharedCards
         /\ result'.value \in SameTriple(result'.arg)
    ]_vars

\* two interleaved calls created cards 31 and 32 with the same vocabulary,
\* definition and recipient, and a call u3 made afterwards returned one of them
C26_Witness ==
  /\ \A s \in Clients : inflight[s].pc = "done" /\ inflight[s].op = "addSharedCardFromChallenge"
  /\ {inflight[s].id : s \in Clients} = {31, 32}
  /\ {31, 32} \subseteq DOMAIN sharedCards
  /\ Cardinality(SameTriple(sharedCards[31])) = 2
  /\ result.op = "addSharedCardFromChallenge"
  /\ result.actor = "u3"
  /\ result.value \in SameTriple(result.arg)
  /\ SameTriple(result.arg) = {31, 32}

\* C27: when a user confirms 'add card' in the challenge screen, the shared card
\* the call returns has that user as recipientId and the challenge's sender as
\* senderId, and it is in the user's getSharedCardsForRecipient result, whichever
\* entry of the recipients list the user is.
C27_AddedCardBelongsToActingUser ==
  [][\A u \in Recipients :
       (/\ result'.tick # result.tick
        /\ result'.op = "addSharedCardFromChallenge"
        /\ result'.actor = u
        /\ screen[u].showRewardModal) =>
          /\ (result.value \in getSharedCardsForRecipient(u))'
          /\ (sharedCards[result.value].senderId
                = challenges[CurrentChallenge(u)].senderId)'
    ]_vars

\* C28: once the profile component has unmounted, no listener that
\* loadUserStats or loadFriendsData subscribed is still subscribed, also when a
\* load was awaiting the store at the unmount or two loads overlapped.
C28_NoListenerOutlivesComponent ==
  \A u \in Users : ~component[u].isMounted => component[u].subscribed = {}

\* C28, its second half: after the unmount no listener callback changes what
\* the component shows.
C28_NoUpdateAfterUnmount ==
  [][\A u \in Users : ~component[u].isMounted => profile'[u] = profile[u]]_vars

\* C29: no award is lost, however two addUserXP calls for the same user
\* interleave: each call, when it writes, leaves totalXP exactly its amount above
\* what it was (0 for a user without a document), so two calls with a and b add a + b.
C29_EveryAwardIsAdded ==
  [][\A s \in Clients :
       (/\ inflight[s].pc = "read"
        /\ inflight[s].op = "addUserXP"
        /\ inflight'[s].pc = "done") =>
          users'[inflight[s].actor].totalXP
            = users[inflight[s].actor].totalXP + inflight[s].xpAmount
    ]_vars

\* C30: every card that names a topic names one that exists and belongs to the
\* card's user, also while deleteTopic runs between its card query and its
\* commit and the owner adds or moves a card into the topic.
C30_CardsAreFiledUnderOwnTopics ==
  \A c \in DOMAIN cards :
    cards[c].topicId # NoTopic =>
      /\ cards[c].topicId \in DOMAIN topics
      /\ topics[cards[c].topicId].userId = cards[c].userId

====
